---- MODULE Spec2Model ----
(***************************************************************************)
(* Model of the access-policy generator (PolicyGenerator): one run of      *)
(* generate() over a resolved schema AST.  The AST (models, fields,        *)
(* attributes, rule expressions) is the input, chosen in Init; the actions *)
(* are the steps of generate(): the per-model loop of writePolicy          *)
(* (model-level then field-level definitions), writeValidationMeta,        *)
(* writeAuthSelector and the final save.                                   *)
(***************************************************************************)
EXTENDS Integers, Sequences, FiniteSets, TLC

VARIABLES
    schema,        \* the resolved AST: the sequence of data models
    options,       \* the plugin options
    pc,            \* position inside generate()
    idx,           \* index of the model the writePolicy loop is at
    policy,        \* the `policy:` block written so far: model name -> definitions
    functions,     \* the functions added to the source file (sf.addFunction)
    validation,    \* the `validation:` block: model name -> hasValidation
    authSelector,  \* the `authSelector:` entry (Absent when not written)
    saved,         \* policy.ts on disk: Absent, or what sf.save() wrote
    previous,      \* the outcome of an earlier generate() call on the same project
    hookCall,      \* useModelMutation: the arguments of the call of the hook
    hookPc,        \* useModelMutation: position inside the hook
    setups,        \* useModelMutation: the setup calls made so far, in order
    requests,      \* useModelMutation: the requests mutationFn handed to fetcher
    dmmf,          \* include helpers: the DMMF models and the Prisma version
    inputObjectTypes,  \* include helpers: the list given to addMissingInputObjectTypesForInclude
    generated,     \* include helpers: generatedIncludeInputObjectTypes
    includePc      \* include helpers: position inside addMissingInputObjectTypesForInclude

\* the state of generate()
generatorVars == <<schema, options, pc, idx, policy, functions, validation, authSelector,
                   saved, previous>>

\* the state of the hooks of the tanstack-query runtime
hookVars == <<hookCall, hookPc, setups, requests>>

\* the state of the DMMF include helpers
includeVars == <<dmmf, inputObjectTypes, generated, includePc>>

vars == <<schema, options, pc, idx, policy, functions, validation, authSelector, saved,
          previous, hookVars, includeVars>>

\* ------------------------------------------------------------------ bounds

\* at most this many policy attributes in the whole schema
MaxRules == 2

\* ------------------------------------------------------------------ AST

\* the five operation kinds, in the order writeModelLevelDefs writes them
Kinds == <<"read", "create", "update", "postUpdate", "delete">>

KindSet == {Kinds[i] : i \in 1..Len(Kinds)}

\* the kinds that have a permission checker (PolicyCrudKind)
PolicyCrudKind == {"read", "create", "update", "delete"}

\* the first argument of a policy attribute: a kind, or `all`
OperationArgs == KindSet \cup {"all"}

Absent == {}

\* an AST node: its type; for a ReferenceExpr the field it resolves to
\* (container model and name); for a MemberAccessExpr the member name, with
\* container "auth" when its operand is the auth() invocation
Node(type, container, name) ==
    [type |-> type, container |-> container, name |-> name, scope |-> "row"]

\* a node inside the collection predicate of an auth() relation: its field
\* references resolve against the auth principal, not the row
InAuth(node) == [node EXCEPT !.scope = "auth"]

\* The rule expressions of the schemas explored, each by the nodes streamAst
\* yields for it (the expression itself and every sub-expression, pre-order).
\*   TrueLit        true
\*   Published      published == true
\*   AuthIsAuthor   auth().id == authorId
\*   StatusDraft    status == 'draft'         (Post.status carries @default)
\*   OwnerIdSet     ownerId == 1              (Post.ownerId is a foreign key)
\*   OwnerIsAuth    owner == auth()           (Post.owner is a relation field)
\*   AuthIsThis     auth() == this
\*   AuthHasAdmin   auth().friends?[role == 'ADMIN']
\*                  (User.role carries @default; `role` is a field of User)
\*   UserIsSelf     auth().email == email
\*   ObjectLit      { value: true }           (a shape the transformer rejects)
ExprNodes(e) ==
    CASE e = "TrueLit" ->
           <<Node("LiteralExpr", "", "true")>>
      [] e = "Published" ->
           <<Node("BinaryExpr", "", "=="),
             Node("ReferenceExpr", "Post", "published"),
             Node("LiteralExpr", "", "true")>>
      [] e = "AuthIsAuthor" ->
           <<Node("BinaryExpr", "", "=="),
             Node("MemberAccessExpr", "auth", "id"),
             Node("InvocationExpr", "", "auth"),
             Node("ReferenceExpr", "Post", "authorId")>>
      [] e = "StatusDraft" ->
           <<Node("BinaryExpr", "", "=="),
             Node("ReferenceExpr", "Post", "status"),
             Node("LiteralExpr", "", "draft")>>
      [] e = "OwnerIdSet" ->
           <<Node("BinaryExpr", "", "=="),
             Node("ReferenceExpr", "Post", "ownerId"),
             Node("LiteralExpr", "", "1")>>
      [] e = "OwnerIsAuth" ->
           <<Node("BinaryExpr", "", "=="),
             Node("ReferenceExpr", "Post", "owner"),
             Node("InvocationExpr", "", "auth")>>
      [] e = "AuthIsThis" ->
           <<Node("BinaryExpr", "", "=="),
             Node("InvocationExpr", "", "auth"),
             Node("ThisExpr", "", "this")>>
      [] e = "AuthHasAdmin" ->
           <<Node("BinaryExpr", "", "?"),
             Node("MemberAccessExpr", "auth", "friends"),
             Node("InvocationExpr", "", "auth"),
             InAuth(Node("BinaryExpr", "", "==")),
             InAuth(Node("ReferenceExpr", "User", "role")),
             InAuth(Node("LiteralExpr", "", "ADMIN"))>>
      [] e = "UserIsSelf" ->
           <<Node("BinaryExpr", "", "=="),
             Node("MemberAccessExpr", "auth", "email"),
             Node("ReferenceExpr", "User", "email")>>
      [] e = "ObjectLit" ->
           <<Node("ObjectExpr", "", ""),
             Node("LiteralExpr", "", "true")>>

\* an attribute: its declaration name, and its arguments (a policy attribute
\* has the operation kind and the rule expression as first and second
\* argument, and for a field-level @allow the `override` flag; @relation has
\* the `fields` list)
Attr(decl, kindArg, value, override, fields) ==
    [decl |-> decl, kindArg |-> kindArg, value |-> value, override |-> override,
     fields |-> fields]

PolicyAttr(decl, kindArg, value, override) == Attr(decl, kindArg, value, override, {})

Field(container, name, type, attributes) ==
    [container |-> container, name |-> name, type |-> type, attributes |-> attributes]

ModelNames == <<"Post", "User">>

RECURSIVE SetToSeq(_)
SetToSeq(S) ==
    IF S = {} THEN <<>>
    ELSE LET x == CHOOSE y \in S : TRUE IN <<x>> \o SetToSeq(S \ {x})

\* a policy attribute together with the declaration it is attached to
\* (field = "" for a model-level attribute)
Placed(model, field, attr) == [model |-> model, field |-> field, attr |-> attr]

\* the policy attributes a schema is drawn from: model-level rules of Post
\* for every operation argument, create rules of Post over each expression
\* shape the input-checkable test looks at, field-level rules of Post.title
\* (override and plain allow, deny) and model-level rules of User
RuleUniverse ==
    {Placed("Post", "", PolicyAttr("@@allow", k, e, FALSE)) :
        k \in OperationArgs, e \in {"TrueLit", "Published", "AuthIsAuthor"}}
    \cup
    {Placed("Post", "", PolicyAttr("@@deny", k, "Published", FALSE)) : k \in OperationArgs}
    \cup
    {Placed("Post", "", PolicyAttr("@@allow", "create", e, FALSE)) :
        e \in {"StatusDraft", "OwnerIdSet", "OwnerIsAuth", "AuthIsThis", "AuthHasAdmin"}}
    \cup
    {Placed("Post", "", PolicyAttr("@@deny", "create", e, FALSE)) :
        e \in {"StatusDraft", "AuthHasAdmin"}}
    \cup
    {Placed("Post", "title", PolicyAttr("@allow", k, "Published", TRUE)) :
        k \in {"read", "update"}}
    \cup
    {Placed("Post", "title", PolicyAttr("@allow", k, "AuthIsAuthor", FALSE)) :
        k \in {"read", "update"}}
    \cup
    {Placed("Post", "title", PolicyAttr("@deny", k, "StatusDraft", FALSE)) :
        k \in {"read", "update"}}
    \cup
    {Placed("User", "", PolicyAttr("@@allow", "read", "UserIsSelf", FALSE)),
     Placed("User", "", PolicyAttr("@@allow", "all", "TrueLit", FALSE))}
    \cup
    {Placed("Post", "", PolicyAttr("@@allow", "read", "ObjectLit", FALSE)),
     Placed("Post", "", PolicyAttr("@@deny", "create", "ObjectLit", FALSE)),
     Placed("Post", "title", PolicyAttr("@allow", "read", "ObjectLit", FALSE)),
     Placed("User", "", PolicyAttr("@@allow", "read", "ObjectLit", FALSE))}

\* the order in which the attributes are declared in the schema text
RuleOrder == SetToSeq(RuleUniverse)

RECURSIVE SubsetsUpTo(_, _)
SubsetsUpTo(U, k) ==
    IF k = 0 THEN {{}}
    ELSE LET P == SubsetsUpTo(U, k - 1) IN P \cup {p \cup {x} : p \in P, x \in U}

\* the attributes of `rules` attached to (model, field), in declaration order
AttrsOf(rules, model, field) ==
    LET sel == SelectSeq(RuleOrder,
                   LAMBDA r : r \in rules /\ r.model = model /\ r.field = field)
    IN [i \in 1..Len(sel) |-> sel[i].attr]

\* whether some rule expression of `rules` refers to field `name` of `model`
Mentions(rules, model, name) ==
    \E r \in rules : \E i \in 1..Len(ExprNodes(r.attr.value)) :
        LET n == ExprNodes(r.attr.value)[i] IN
        \/ n.type = "ReferenceExpr" /\ n.container = model /\ n.name = name
        \/ n.type = "MemberAccessExpr" /\ model = "User" /\ n.name = name

PostModel(rules) ==
    [name |-> "Post",
     attributes |-> AttrsOf(rules, "Post", ""),
     fields |->
        <<Field("Post", "id", "Int", <<Attr("@id", "", "", FALSE, {})>>),
          Field("Post", "title", "String", AttrsOf(rules, "Post", "title")),
          Field("Post", "published", "Boolean", <<>>),
          Field("Post", "authorId", "Int", <<>>)>>
        \o (IF Mentions(rules, "Post", "status")
             THEN <<Field("Post", "status", "String",
                          <<Attr("@default", "", "", FALSE, {})>>)>>
             ELSE <<>>)
        \o (IF Mentions(rules, "Post", "owner") \/ Mentions(rules, "Post", "ownerId")
             THEN <<Field("Post", "owner", "User",
                          <<Attr("@relation", "", "", FALSE, {"ownerId"})>>),
                    Field("Post", "ownerId", "Int", <<>>)>>
             ELSE <<>>)]

UserModel(rules) ==
    [name |-> "User",
     attributes |-> AttrsOf(rules, "User", ""),
     fields |->
        <<Field("User", "id", "Int", <<Attr("@id", "", "", FALSE, {})>>),
          Field("User", "email", "String", <<>>)>>
        \o (IF Mentions(rules, "User", "role")
             THEN <<Field("User", "role", "String",
                          <<Attr("@default", "", "", FALSE, {})>>),
                    Field("User", "friends", "User", <<>>)>>
             ELSE <<>>)]

\* getDataModels(model): the data models of the schema, in declaration order
SchemaOf(rules) == <<PostModel(rules), UserModel(rules)>>

Schemas == {SchemaOf(rules) : rules \in SubsetsUpTo(RuleUniverse, MaxRules)}

\* the plugin options a run is started with: the two flags given as `true`,
\* or not given
OptionSets ==
    {[generatePermissionChecker |-> v, preserveTsFiles |-> v, output |-> "undefined"] :
        v \in {"true", "undefined"}}

\* ------------------------------------------------------------------ AST helpers

isDataModel(decl) == "fields" \in DOMAIN decl

NodeSet(e) == {ExprNodes(e)[i] : i \in 1..Len(ExprNodes(e))}

\* the declaration of field `name` of model `container`, as a set (empty when
\* the reference does not resolve to a data model field)
FieldDecl(container, name) ==
    {f \in UNION {{m.fields[i] : i \in 1..Len(m.fields)} :
                    m \in {schema[j] : j \in 1..Len(schema)}} :
        f.container = container /\ f.name = name}

hasAttribute(decl, name) ==
    \E i \in 1..Len(decl.attributes) : decl.attributes[i].decl = name

\* a field is a foreign key when a relation field of the same model lists it
\* in its @relation(fields: [...])
isForeignKeyField(field) ==
    \E m \in {schema[j] : j \in 1..Len(schema)} :
        /\ m.name = field.container
        /\ \E i \in 1..Len(m.fields) : \E a \in 1..Len(m.fields[i].attributes) :
              /\ m.fields[i].attributes[a].decl = "@relation"
              /\ field.name \in m.fields[i].attributes[a].fields

MapSeq(seq, Op(_)) == [i \in 1..Len(seq) |-> Op(seq[i])]

Range(seq) == {seq[i] : i \in 1..Len(seq)}

\* ------------------------------------------------------------------ collaborators

\* §4.2 collect(modelOrField, allow|deny, operationKind, overrideOnly?)
getPolicyExpressions(target, kind, operation, forOverride) ==
    LET attrName == IF isDataModel(target)
                    THEN (IF kind = "allow" THEN "@@allow" ELSE "@@deny")
                    ELSE (IF kind = "allow" THEN "@allow" ELSE "@deny")
        attrs == SelectSeq(target.attributes,
                     LAMBDA a : /\ a.decl = attrName
                                /\ (a.kindArg = operation \/ a.kindArg = "all")
                                /\ (forOverride => a.override))
    IN MapSeq(attrs, LAMBDA a : a.value)

isLiteralTrue(e) ==
    ExprNodes(e) = <<Node("LiteralExpr", "", "true")>>

\* §4.3 analyze(model): operation kind -> "true" | "false" | "dynamic"
analyzePolicies(model) ==
    [k \in KindSet |->
        LET allows == getPolicyExpressions(model, "allow", k, FALSE)
            denies == getPolicyExpressions(model, "deny", k, FALSE)
        IN IF k = "postUpdate" /\ Len(allows) = 0 /\ Len(denies) = 0 THEN "true"
           ELSE IF Len(allows) = 0 THEN "false"
           ELSE IF Len(denies) = 0 /\ \E i \in 1..Len(allows) : isLiteralTrue(allows[i])
                THEN "true"
           ELSE "dynamic"]

\* §4.1 transform(rule): whether the transformer accepts the rule; an
\* unsupported expression shape is a generation-time error
transform(rule) == \A node \in NodeSet(rule) : node.type # "ObjectExpr"

\* a generated function: its name, its shape, the rules compiled into it
\* and whether compiling them threw
Func(name, shape, allows, denies) ==
    [name |-> name, shape |-> shape, allows |-> allows, denies |-> denies,
     throws |-> FALSE]

\* the function whose statements hand every rule in `rules` to the transformer
Compiled(func, rules) ==
    [func EXCEPT !.throws = \E rule \in Range(rules) : ~ transform(rule)]

\* §4.5 query guard: a function built from the allow and deny rules handed in
generateQueryGuardFunction(model, kind, allows, denies, forField, fieldOverride) ==
    Compiled(Func(<<model.name, forField, kind,
                    IF fieldOverride THEN "override" ELSE "guard">>,
                  "queryGuard", allows, denies),
             allows \o denies)

\* a select shape: field name -> nested select shape; `true` is the empty shape
Leaf == <<>>

RECURSIVE Union(_, _)
Union(a, b) ==
    [k \in DOMAIN a \cup DOMAIN b |->
        IF k \in DOMAIN a /\ k \in DOMAIN b THEN Union(a[k], b[k])
        ELSE IF k \in DOMAIN a THEN a[k] ELSE b[k]]

\* the select shape one rule (or, for auth, one auth() member access) needs
SelectForRule(rule, forAuth) ==
    IF forAuth
    THEN rule.name :> Leaf
    ELSE LET refs == {n \in NodeSet(rule) : n.type = "ReferenceExpr" /\ n.scope = "row"}
         IN [k \in {n.name : n \in refs} |-> Leaf]

RECURSIVE SelectForRules(_, _)
SelectForRules(rules, forAuth) ==
    IF Len(rules) = 0 THEN <<>>
    ELSE Union(SelectForRule(Head(rules), forAuth), SelectForRules(Tail(rules), forAuth))

\* §4.4 the projection a rule set needs; Absent when it needs none
generateSelectForRules(rules, forAuth) ==
    LET select == SelectForRules(rules, forAuth)
    IN IF DOMAIN select = {} THEN Absent ELSE {select}

\* ------------------------------------------------------------------ PolicyGenerator

\* what a write* method produces: the `key: value` pairs it writes into the
\* current block and the functions it adds to the source file
Out(entry, funcs) ==
    [entry |-> entry, funcs |-> funcs, throws |-> \E f \in Range(funcs) : f.throws]

Const(text) == <<text>>

IsBoolean(v) == v \in {"true", "false"}

\* writePolicyGuard without the `update` default: an update kind without
\* allow rules is handled like the other kinds
writePolicyGuard_NoUpdateDefault(model, kind, policies, allows, denies) ==
    IF kind = "postUpdate" /\ Len(allows) = 0 /\ Len(denies) = 0
    THEN Out("guard" :> Const("true"), <<>>)
    ELSE IF kind \in DOMAIN policies /\ IsBoolean(policies[kind])
    THEN Out("guard" :> Const(policies[kind]), <<>>)
    ELSE LET guardFunc == generateQueryGuardFunction(model, kind, allows, denies, "", FALSE)
         IN Out("guard" :> guardFunc.name, <<guardFunc>>)

\* writePolicyGuard with the `postUpdate` default written as deny
writePolicyGuard_PostUpdateDeny(model, kind, policies, allows, denies) ==
    IF kind = "update" /\ Len(allows) = 0
    THEN IF Len(getPolicyExpressions(model, "allow", "postUpdate", FALSE)) = 0
         THEN Out("guard" :> Const("false"), <<>>)
         ELSE Out("guard" :> Const("true"), <<>>)
    ELSE IF kind = "postUpdate" /\ Len(allows) = 0 /\ Len(denies) = 0
    THEN Out("guard" :> Const("false"), <<>>)
    ELSE IF kind \in DOMAIN policies /\ IsBoolean(policies[kind])
    THEN Out("guard" :> Const(policies[kind]), <<>>)
    ELSE LET guardFunc == generateQueryGuardFunction(model, kind, allows, denies, "", FALSE)
         IN Out("guard" :> guardFunc.name, <<guardFunc>>)

\* writePolicyGuard without the constant-policy fast path: a guard function
\* is generated whatever the analysis says
writePolicyGuard_NoConstantPath(model, kind, policies, allows, denies) ==
    IF kind = "update" /\ Len(allows) = 0
    THEN IF Len(getPolicyExpressions(model, "allow", "postUpdate", FALSE)) = 0
         THEN Out("guard" :> Const("false"), <<>>)
         ELSE Out("guard" :> Const("true"), <<>>)
    ELSE IF kind = "postUpdate" /\ Len(allows) = 0 /\ Len(denies) = 0
    THEN Out("guard" :> Const("true"), <<>>)
    ELSE LET guardFunc == generateQueryGuardFunction(model, kind, allows, denies, "", FALSE)
         IN Out("guard" :> guardFunc.name, <<guardFunc>>)

\* writes `guard: ...` for a given policy operation kind
writePolicyGuard(model, kind, policies, allows, denies) ==
    IF kind = "update" /\ Len(allows) = 0
    THEN IF Len(getPolicyExpressions(model, "allow", "postUpdate", FALSE)) = 0
         THEN Out("guard" :> Const("false"), <<>>)
         ELSE Out("guard" :> Const("true"), <<>>)
    ELSE IF kind = "postUpdate" /\ Len(allows) = 0 /\ Len(denies) = 0
    THEN Out("guard" :> Const("true"), <<>>)
    ELSE IF kind \in DOMAIN policies /\ IsBoolean(policies[kind])
    THEN Out("guard" :> Const(policies[kind]), <<>>)
    ELSE LET guardFunc == generateQueryGuardFunction(model, kind, allows, denies, "", FALSE)
         IN Out("guard" :> guardFunc.name, <<guardFunc>>)

generatePermissionCheckerFunction(model, kind, allows, denies) ==
    Compiled(Func(<<model.name, "", kind, "checker">>, "permissionChecker",
                  allows, denies),
             allows \o denies)

\* writePermissionChecker without the test of the plugin option
writePermissionChecker_IgnoresOption(model, kind, policies, allows, denies) ==
    IF policies[kind] = "true" \/ policies[kind] = "false"
    THEN Out("permissionChecker" :> Const(policies[kind]), <<>>)
    ELSE IF kind = "update" /\ Len(allows) = 0
    THEN IF Len(getPolicyExpressions(model, "allow", "postUpdate", FALSE)) = 0
         THEN Out("permissionChecker" :> Const("false"), <<>>)
         ELSE Out("permissionChecker" :> Const("true"), <<>>)
    ELSE LET guardFunc == generatePermissionCheckerFunction(model, kind, allows, denies)
         IN Out("permissionChecker" :> guardFunc.name, <<guardFunc>>)

\* writes `permissionChecker: ...` for a given policy operation kind
writePermissionChecker(model, kind, policies, allows, denies) ==
    IF options.generatePermissionChecker # "true"
    THEN Out(<<>>, <<>>)
    ELSE IF policies[kind] = "true" \/ policies[kind] = "false"
    THEN Out("permissionChecker" :> Const(policies[kind]), <<>>)
    ELSE IF kind = "update" /\ Len(allows) = 0
    THEN IF Len(getPolicyExpressions(model, "allow", "postUpdate", FALSE)) = 0
         THEN Out("permissionChecker" :> Const("false"), <<>>)
         ELSE Out("permissionChecker" :> Const("true"), <<>>)
    ELSE LET guardFunc == generatePermissionCheckerFunction(model, kind, allows, denies)
         IN Out("permissionChecker" :> guardFunc.name, <<guardFunc>>)

Both(a, b) == Out(a.entry @@ b.entry, a.funcs \o b.funcs)

\* writeCommonModelDef collecting the `read` rules whatever the kind
writeCommonModelDef_ReadRulesForAll(model, kind, policies) ==
    LET allows == getPolicyExpressions(model, "allow", "read", FALSE)
        denies == getPolicyExpressions(model, "deny", "read", FALSE)
        guard == writePolicyGuard(model, kind, policies, allows, denies)
    IN IF kind # "postUpdate"
       THEN Both(guard, writePermissionChecker(model, kind, policies, allows, denies))
       ELSE guard

\* writeCommonModelDef keeping the rules collected for the first model of
\* the loop
writeCommonModelDef_RulesOfFirstModel(model, kind, policies) ==
    LET allows == getPolicyExpressions(schema[1], "allow", kind, FALSE)
        denies == getPolicyExpressions(schema[1], "deny", kind, FALSE)
        guard == writePolicyGuard(model, kind, policies, allows, denies)
    IN IF kind # "postUpdate"
       THEN Both(guard, writePermissionChecker(model, kind, policies, allows, denies))
       ELSE guard

\* writes `[kind]: ...` for a given model
writeCommonModelDef(model, kind, policies) ==
    LET allows == getPolicyExpressions(model, "allow", kind, FALSE)
        denies == getPolicyExpressions(model, "deny", kind, FALSE)
        guard == writePolicyGuard(model, kind, policies, allows, denies)
    IN IF kind # "postUpdate"
       THEN Both(guard, writePermissionChecker(model, kind, policies, allows, denies))
       ELSE guard

\* NodeCheckable refusing a @default field of any model, not only of the
\* model the rule belongs to
NodeCheckable_AnyDefault(model, expr) ==
    IF expr.type = "ThisExpr" THEN FALSE
    ELSE IF expr.type = "ReferenceExpr"
    THEN LET ref == FieldDecl(expr.container, expr.name) IN
         IF \E f \in ref : f.type \in Range(ModelNames) THEN FALSE
         ELSE IF \E f \in ref : hasAttribute(f, "@default") THEN FALSE
         ELSE IF \E f \in ref : isForeignKeyField(f) THEN FALSE
         ELSE TRUE
    ELSE TRUE

\* whether one AST node of a create rule can be checked against the input
NodeCheckable(model, expr) ==
    IF expr.type = "ThisExpr" THEN FALSE
    ELSE IF expr.type = "ReferenceExpr"
    THEN LET ref == FieldDecl(expr.container, expr.name) IN
         IF \E f \in ref : f.type \in Range(ModelNames) THEN FALSE
         ELSE IF \E f \in ref : f.container = model.name /\ hasAttribute(f, "@default")
         THEN FALSE
         ELSE IF \E f \in ref : isForeignKeyField(f) THEN FALSE
         ELSE TRUE
    ELSE TRUE

canCheckCreateBasedOnInput(model, allows, denies) ==
    \A rule \in Range(allows \o denies) :
        \A expr \in NodeSet(rule) : NodeCheckable(model, expr)

\* generates a function for checking "create" input
generateCreateInputCheckerFunction(model, allows, denies) ==
    Compiled(Func(<<model.name, "", "create", "input">>, "inputChecker", allows, denies),
             IF Len(allows) = 0 THEN <<>> ELSE denies \o allows)

\* writes `inputChecker: [funcName]` for a given model
writeCreateInputChecker(model) ==
    LET allows == getPolicyExpressions(model, "allow", "create", FALSE)
        denies == getPolicyExpressions(model, "deny", "create", FALSE)
    IN IF canCheckCreateBasedOnInput(model, allows, denies)
       THEN LET inputCheckFunc == generateCreateInputCheckerFunction(model, allows, denies)
            IN Out("inputChecker" :> inputCheckFunc.name, <<inputCheckFunc>>)
       ELSE Out(<<>>, <<>>)

\* writePostUpdatePreValueSelector selecting for the first rule only
writePostUpdatePreValueSelector_FirstRuleOnly(model) ==
    LET allows == getPolicyExpressions(model, "allow", "postUpdate", FALSE)
        denies == getPolicyExpressions(model, "deny", "postUpdate", FALSE)
        rules == allows \o denies
        preValueSelect == generateSelectForRules(
            IF Len(rules) = 0 THEN <<>> ELSE <<Head(rules)>>, FALSE)
    IN IF preValueSelect # Absent
       THEN Out("preUpdateSelector" :> preValueSelect, <<>>)
       ELSE Out(<<>>, <<>>)

writePostUpdatePreValueSelector(model) ==
    LET allows == getPolicyExpressions(model, "allow", "postUpdate", FALSE)
        denies == getPolicyExpressions(model, "deny", "postUpdate", FALSE)
        preValueSelect == generateSelectForRules(allows \o denies, FALSE)
    IN IF preValueSelect # Absent
       THEN Out("preUpdateSelector" :> preValueSelect, <<>>)
       ELSE Out(<<>>, <<>>)

writeModelReadDef(model, policies) == writeCommonModelDef(model, "read", policies)

\* writeModelCreateDef writing nothing when the input checker cannot be built
writeModelCreateDef_FailClosed(model, policies) ==
    IF DOMAIN writeCreateInputChecker(model).entry = {}
    THEN Out(<<>>, <<>>)
    ELSE Both(writeCommonModelDef(model, "create", policies), writeCreateInputChecker(model))

\* writes `create: ...` for a given model
writeModelCreateDef(model, policies) ==
    Both(writeCommonModelDef(model, "create", policies), writeCreateInputChecker(model))

\* writeModelUpdateDef writing an input checker under `update` as well
writeModelUpdateDef_WithInputChecker(model, policies) ==
    Both(writeCommonModelDef(model, "update", policies), writeCreateInputChecker(model))

writeModelUpdateDef(model, policies) == writeCommonModelDef(model, "update", policies)

writeModelPostUpdateDef(model, policies) ==
    Both(writeCommonModelDef(model, "postUpdate", policies),
         writePostUpdatePreValueSelector(model))

writeModelDeleteDef(model, policies) == writeCommonModelDef(model, "delete", policies)

\* writes model-level policy def for each operation kind for a model
writeModelLevelDefs(model) ==
    LET policies == analyzePolicies(model)
        read == writeModelReadDef(model, policies)
        create == writeModelCreateDef(model, policies)
        update == writeModelUpdateDef(model, policies)
        postUpdate == writeModelPostUpdateDef(model, policies)
        delete == writeModelDeleteDef(model, policies)
    IN Out([read |-> read.entry, create |-> create.entry, update |-> update.entry,
            postUpdate |-> postUpdate.entry, delete |-> delete.entry],
           read.funcs \o create.funcs \o update.funcs \o postUpdate.funcs
               \o delete.funcs)

\* generates the read checker of a field; throws when handed no rule at all
generateFieldReadCheckerFunction(field, allows, denies) ==
    LET func == Compiled(Func(<<field.container, field.name, "read", "checker">>,
                              "fieldReadChecker", allows, denies),
                         denies \o allows)
    IN [func EXCEPT !.throws = @ \/ (Len(allows) = 0 /\ Len(denies) = 0)]

\* FieldsWithRules counting the model-level rules of the kind as rules of
\* every field
FieldsWithRules_WithModelRules(model, kind) ==
    {field \in Range(model.fields) :
        ~ (Len(getPolicyExpressions(field, "deny", kind, FALSE)) = 0
           /\ Len(getPolicyExpressions(field, "allow", kind, FALSE)) = 0
           /\ Len(getPolicyExpressions(model, "deny", kind, FALSE)) = 0)}

\* FieldsWithRules skipping no field in the update loop
FieldsWithRules_UpdateSkipsNone(model, kind) ==
    {field \in Range(model.fields) :
        kind = "update"
        \/ ~ (Len(getPolicyExpressions(field, "deny", kind, FALSE)) = 0
              /\ Len(getPolicyExpressions(field, "allow", kind, FALSE)) = 0)}

\* the fields of a model the field-level loops do not skip
FieldsWithRules(model, kind) ==
    {field \in Range(model.fields) :
        ~ (Len(getPolicyExpressions(field, "deny", kind, FALSE)) = 0
           /\ Len(getPolicyExpressions(field, "allow", kind, FALSE)) = 0)}

\* FieldOverrideGuards building the guard from all the allow rules of the field
FieldOverrideGuards_AllAllows(model, kind, fields) ==
    LET withOverride == {field \in fields :
            Len(getPolicyExpressions(field, "allow", kind, TRUE)) > 0}
    IN [name \in {field.name : field \in withOverride} |->
           LET field == CHOOSE f \in withOverride : f.name = name
               overrideAllows == getPolicyExpressions(field, "allow", kind, FALSE)
               denies == getPolicyExpressions(field, "deny", kind, FALSE)
           IN generateQueryGuardFunction(model, kind, overrideAllows, denies,
                                         field.name, TRUE)]

\* the override guard of a field, for the fields that have override allow rules
FieldOverrideGuards(model, kind, fields) ==
    LET withOverride == {field \in fields :
            Len(getPolicyExpressions(field, "allow", kind, TRUE)) > 0}
    IN [name \in {field.name : field \in withOverride} |->
           LET field == CHOOSE f \in withOverride : f.name = name
               overrideAllows == getPolicyExpressions(field, "allow", kind, TRUE)
               denies == getPolicyExpressions(field, "deny", kind, FALSE)
           IN generateQueryGuardFunction(model, kind, overrideAllows, denies,
                                         field.name, TRUE)]

NamesOf(funcs) == [name \in DOMAIN funcs |-> funcs[name].name]

RECURSIVE Flatten(_)
Flatten(seqs) == IF Len(seqs) = 0 THEN <<>> ELSE Head(seqs) \o Flatten(Tail(seqs))

\* the functions added while looping over the fields: for each field its
\* checker or guard, then its override guard when it has one
FuncsOf(inOrder, funcs, overrideGuards) ==
    Flatten(MapSeq(inOrder, LAMBDA f :
        <<funcs[f.name]>>
        \o (IF f.name \in DOMAIN overrideGuards
            THEN <<overrideGuards[f.name]>> ELSE <<>>)))

\* writes the `read:` block of the field-level definitions of a model
writeFieldReadDef(model) ==
    LET checked == FieldsWithRules(model, "read")
        inOrder == SelectSeq(model.fields, LAMBDA f : f \in checked)
        allFieldsAllows == Flatten(MapSeq(inOrder,
            LAMBDA f : getPolicyExpressions(f, "allow", "read", FALSE)))
        allFieldsDenies == Flatten(MapSeq(inOrder,
            LAMBDA f : getPolicyExpressions(f, "deny", "read", FALSE)))
        checkers == [name \in {field.name : field \in checked} |->
            LET field == CHOOSE f \in checked : f.name = name
            IN generateFieldReadCheckerFunction(field,
                   getPolicyExpressions(field, "allow", "read", FALSE),
                   getPolicyExpressions(field, "deny", "read", FALSE))]
        fieldCheckers == checkers
        overrideGuards == FieldOverrideGuards(model, "read", checked)
        readFieldCheckSelect ==
            generateSelectForRules(allFieldsAllows \o allFieldsDenies, FALSE)
        block ==
            (IF DOMAIN fieldCheckers # {}
             THEN ("checker" :> NamesOf(fieldCheckers))
                  @@ (IF readFieldCheckSelect # Absent
                      THEN "selector" :> readFieldCheckSelect ELSE <<>>)
             ELSE <<>>)
            @@ (IF DOMAIN overrideGuards # {}
                THEN "overrideGuard" :> NamesOf(overrideGuards) ELSE <<>>)
    IN [entry |-> IF DOMAIN fieldCheckers # {} \/ DOMAIN overrideGuards # {}
                  THEN "read" :> block ELSE <<>>,
        funcs |-> FuncsOf(inOrder, fieldCheckers, overrideGuards)]

\* writes the `update:` block of the field-level definitions of a model
writeFieldUpdateDef(model) ==
    LET guarded == FieldsWithRules(model, "update")
        inOrder == SelectSeq(model.fields, LAMBDA f : f \in guarded)
        guards == [name \in {field.name : field \in guarded} |->
            LET field == CHOOSE f \in guarded : f.name = name
            IN generateQueryGuardFunction(model, "update",
                   getPolicyExpressions(field, "allow", "update", FALSE),
                   getPolicyExpressions(field, "deny", "update", FALSE),
                   field.name, FALSE)]
        overrideGuards == FieldOverrideGuards(model, "update", guarded)
        block ==
            (IF DOMAIN guards # {} THEN "guard" :> NamesOf(guards) ELSE <<>>)
            @@ (IF DOMAIN overrideGuards # {}
                THEN "overrideGuard" :> NamesOf(overrideGuards) ELSE <<>>)
    IN [entry |-> IF DOMAIN guards # {} \/ DOMAIN overrideGuards # {}
                  THEN "update" :> block ELSE <<>>,
        funcs |-> FuncsOf(inOrder, guards, overrideGuards)]

writeFieldLevelDefs(model) ==
    LET read == writeFieldReadDef(model)
        update == writeFieldUpdateDef(model)
    IN Out(read.entry @@ update.entry, read.funcs \o update.funcs)

hasValidationAttributes(model) ==
    \E field \in Range(model.fields) : \E a \in Range(field.attributes) :
        a.decl \in {"@length", "@email", "@regex", "@gt", "@lt"}

\* generateAuthSelector looking at the model-level rules only
generateAuthSelector_ModelLevelOnly(models) ==
    LET rulesOf(model) ==
            LET modelPolicyAttrs == SelectSeq(model.attributes,
                    LAMBDA attr : attr.decl \in {"@@allow", "@@deny"})
                allExpressions == MapSeq(modelPolicyAttrs, LAMBDA attr : attr.value)
            IN Flatten(MapSeq(allExpressions,
                   LAMBDA rule : SelectSeq(ExprNodes(rule),
                       LAMBDA node : node.type = "MemberAccessExpr"
                                     /\ node.container = "auth")))
        authRules == Flatten(MapSeq(models, rulesOf))
    IN IF Len(authRules) > 0
       THEN generateSelectForRules(authRules, TRUE)
       ELSE Absent

\* Generates a { select: ... } object to select `auth()` fields used in policy rules
generateAuthSelector(models) ==
    LET rulesOf(model) ==
            LET modelPolicyAttrs == SelectSeq(model.attributes,
                    LAMBDA attr : attr.decl \in {"@@allow", "@@deny"})
                fieldPolicyAttrs == SelectSeq(
                    Flatten(MapSeq(model.fields, LAMBDA f : f.attributes)),
                    LAMBDA attr : attr.decl \in {"@allow", "@deny"})
                allExpressions == MapSeq(modelPolicyAttrs \o fieldPolicyAttrs,
                    LAMBDA attr : attr.value)
            IN Flatten(MapSeq(allExpressions,
                   LAMBDA rule : SelectSeq(ExprNodes(rule),
                       LAMBDA node : node.type = "MemberAccessExpr"
                                     /\ node.container = "auth")))
        authRules == Flatten(MapSeq(models, rulesOf))
    IN IF Len(authRules) > 0
       THEN generateSelectForRules(authRules, TRUE)
       ELSE Absent

\* ------------------------------------------------------------------ generate()

\* the hooks of the tanstack-query runtime are not part of generate()
HooksNotCalled ==
    /\ hookCall = Absent
    /\ hookPc = "unused"
    /\ setups = <<>>
    /\ requests = <<>>

\* neither are the DMMF include helpers
IncludeHelpersNotCalled ==
    /\ dmmf = Absent
    /\ inputObjectTypes = <<>>
    /\ generated = <<>>
    /\ includePc = "unused"

Init ==
    /\ schema \in Schemas
    /\ options \in OptionSets
    /\ pc = "start"
    /\ idx = 1
    /\ policy = <<>>
    /\ functions = <<>>
    /\ validation = <<>>
    /\ authSelector = Absent
    /\ saved = Absent
    /\ previous = Absent
    /\ HooksNotCalled
    /\ IncludeHelpersNotCalled

\* the functions sf.addFunction has added when the statements of one of them
\* throw: those before it
RECURSIVE Added(_)
Added(funcs) ==
    IF Len(funcs) = 0 \/ Head(funcs).throws THEN <<>>
    ELSE <<Head(funcs)>> \o Added(Tail(funcs))

\* what sf.save() writes to policy.ts: the functions and the policy object
Artifact ==
    [functions |-> functions, policy |-> policy, validation |-> validation,
     authSelector |-> authSelector]

\* the model without any policy attribute, on the model or on its fields
WithoutRules(m) ==
    [m EXCEPT !.attributes = SelectSeq(@, LAMBDA a : a.decl \notin {"@@allow", "@@deny"}),
              !.fields = MapSeq(@, LAMBDA f :
                  [f EXCEPT !.attributes =
                      SelectSeq(@, LAMBDA a : a.decl \notin {"@allow", "@deny"})])]

\* the schemas a second generate() call is handed: the same schema, the same
\* models declared in the opposite order, and the schema with the policy
\* rules of all models but one removed
Resubmitted(models) ==
    {models, [i \in 1..Len(models) |-> models[Len(models) + 1 - i]]}
    \cup {MapSeq(models, LAMBDA m : IF m.name = keep THEN m ELSE WithoutRules(m)) :
             keep \in {m.name : m \in Range(models)}}

\* createSourceFile, writeImports, getDataModels; the policy block is opened
Start ==
    /\ pc = "start"
    /\ pc' = IF Len(schema) = 0 THEN "validation" ELSE "modelLevel"
    /\ UNCHANGED <<schema, options, idx, policy, functions, validation, authSelector, saved, previous, hookVars, includeVars>>

\* writePolicy, loop body, first half: the model-level definitions of a model
WriteModelLevelDefs ==
    /\ pc = "modelLevel"
    /\ LET model == schema[idx]
           out == writeModelLevelDefs(model)
       IN /\ policy' = IF out.throws THEN policy
                      ELSE policy @@ (model.name :> ("modelLevel" :> out.entry))
          /\ functions' = functions \o Added(out.funcs)
          /\ pc' = IF out.throws THEN "error" ELSE "fieldLevel"
    /\ UNCHANGED <<schema, options, idx, validation, authSelector, saved, previous, hookVars, includeVars>>

\* writePolicy, loop body, second half: the field-level definitions of a model
WriteFieldLevelDefs ==
    /\ pc = "fieldLevel"
    /\ LET model == schema[idx]
           out == writeFieldLevelDefs(model)
       IN /\ policy' = IF out.throws THEN policy
                      ELSE [policy EXCEPT ![model.name] = @ @@ ("fieldLevel" :> out.entry)]
          /\ functions' = functions \o Added(out.funcs)
          /\ pc' = IF out.throws THEN "error"
                   ELSE IF idx = Len(schema) THEN "validation" ELSE "modelLevel"
          /\ idx' = IF out.throws THEN idx ELSE idx + 1
    /\ UNCHANGED <<schema, options, validation, authSelector, saved, previous, hookVars, includeVars>>

WriteValidationMeta ==
    /\ pc = "validation"
    /\ validation' = [name \in {m.name : m \in Range(schema)} |->
            LET model == CHOOSE m \in Range(schema) : m.name = name
            IN [hasValidation |-> hasValidationAttributes(model)]]
    /\ pc' = "authSelector"
    /\ UNCHANGED <<schema, options, idx, policy, functions, authSelector, saved, previous, hookVars, includeVars>>

WriteAuthSelector ==
    /\ pc = "authSelector"
    /\ authSelector' = generateAuthSelector(schema)
    /\ pc' = "save"
    /\ UNCHANGED <<schema, options, idx, policy, functions, validation, saved, previous, hookVars, includeVars>>

\* `export default policy`, then save the file when asked to
Save ==
    /\ pc = "save"
    /\ LET preserveTsFiles ==
               options.preserveTsFiles = "true" \/ options.output # "undefined"
       IN saved' = IF preserveTsFiles THEN {Artifact} ELSE saved
    /\ pc' = "done"
    /\ UNCHANGED <<schema, options, idx, policy, functions, validation, authSelector, previous, hookVars, includeVars>>

Next ==
    \/ Start
    \/ WriteModelLevelDefs
    \/ WriteFieldLevelDefs
    \/ WriteValidationMeta
    \/ WriteAuthSelector
    \/ Save

Spec == Init /\ [][Next]_vars

\* Regenerate adding the functions to the source file of the earlier call
Regenerate_KeepsFunctions ==
    /\ pc \in {"done", "error"}
    /\ previous = Absent
    /\ previous' = {[schema |-> schema, pc |-> pc, artifact |-> Artifact]}
    /\ schema' \in Resubmitted(schema)
    /\ pc' = "start"
    /\ idx' = 1
    /\ policy' = <<>>
    /\ validation' = <<>>
    /\ authSelector' = Absent
    /\ UNCHANGED <<options, functions, saved, hookVars, includeVars>>

\* generate() called again on the same project, once the first call has
\* returned or thrown: createSourceFile(..., { overwrite: true }) starts from
\* an empty source file, the policy block is written anew
Regenerate ==
    /\ pc \in {"done", "error"}
    /\ previous = Absent
    /\ previous' = {[schema |-> schema, pc |-> pc, artifact |-> Artifact]}
    /\ schema' \in Resubmitted(schema)
    /\ pc' = "start"
    /\ idx' = 1
    /\ policy' = <<>>
    /\ functions' = <<>>
    /\ validation' = <<>>
    /\ authSelector' = Absent
    /\ UNCHANGED <<options, saved, hookVars, includeVars>>

NextAgain ==
    \/ Next
    \/ Regenerate

\* the runs with a second call: every schema, with the permission checkers
\* and the saving of policy.ts switched on
InitAgain ==
    /\ Init
    /\ options.generatePermissionChecker = "true"
    /\ options.preserveTsFiles = "true"

SpecAgain == InitAgain /\ [][NextAgain]_vars

\* ------------------------------------------------------------------ meaning of the artifact

\* the rule expressions of the schema, and the valuations of them: one
\* valuation fixes a row, an input and an auth context
RuleExprs ==
    UNION {{a.value : a \in {x \in Range(m.attributes) :
                                  x.decl \in {"@@allow", "@@deny"}}}
           \cup UNION {{a.value : a \in {x \in Range(f.attributes) :
                                              x.decl \in {"@allow", "@deny"}}} :
                       f \in Range(m.fields)} :
           m \in Range(schema)}

Envs == [RuleExprs -> BOOLEAN]

Truth(e, env) == IF isLiteralTrue(e) THEN TRUE ELSE env[e]

\* §4.5: a guard function allows when some allow rule holds and no deny rule holds
EvalFunc(f, env) ==
    /\ \E e \in Range(f.allows) : Truth(e, env)
    /\ ~ \E e \in Range(f.denies) : Truth(e, env)

\* the create input checker returning the negated denies when there is no
\* allow rule
EvalInputChecker_NoAllowIsNotDenied(f, env) ==
    IF Len(f.allows) = 0
    THEN ~ \E e \in Range(f.denies) : Truth(e, env)
    ELSE /\ ~ \E e \in Range(f.denies) : Truth(e, env)
         /\ \E e \in Range(f.allows) : Truth(e, env)

\* the verdict of the statements of a create input checker: `return false`
\* without allow rules, else `!(deny || ...) && (allow || ...)`
EvalInputChecker(f, env) ==
    IF Len(f.allows) = 0 THEN FALSE
    ELSE /\ ~ \E e \in Range(f.denies) : Truth(e, env)
         /\ \E e \in Range(f.allows) : Truth(e, env)

\* the field read checker refusing every read when there is no allow rule
EvalFieldReadChecker_NoAllowIsFalse(f, env) ==
    /\ ~ \E e \in Range(f.denies) : Truth(e, env)
    /\ \E e \in Range(f.allows) : Truth(e, env)

\* the verdict of the statements of a field read checker: denyStmt &&
\* allowStmt, or the one of the two that exists
EvalFieldReadChecker(f, env) ==
    LET denyStmt == ~ \E e \in Range(f.denies) : Truth(e, env)
        allowStmt == \E e \in Range(f.allows) : Truth(e, env)
    IN IF Len(f.denies) > 0 /\ Len(f.allows) > 0 THEN denyStmt /\ allowStmt
       ELSE IF Len(f.denies) > 0 THEN denyStmt
       ELSE allowStmt

\* the verdict of a `guard:` value: a constant, or the function it names
EvalGuard(value, env) ==
    IF value = Const("true") THEN TRUE
    ELSE IF value = Const("false") THEN FALSE
    ELSE \E f \in Range(functions) : f.name = value /\ EvalFunc(f, env)

\* ------------------------------------------------------------------ vocabulary of the properties

Models == Range(schema)

Applies(attr, kind) == attr.kindArg = kind \/ attr.kindArg = "all"

\* the attributes named `decl` of a model or field that apply to `kind`
RulesFor(target, decl, kind) ==
    {attr \in Range(target.attributes) : attr.decl = decl /\ Applies(attr, kind)}

ModelLevelWritten(m) == m.name \in DOMAIN policy

FieldLevelWritten(m) ==
    m.name \in DOMAIN policy /\ "fieldLevel" \in DOMAIN policy[m.name]

EntryOf(m, kind) == policy[m.name]["modelLevel"][kind]

GuardOf(m, kind) == EntryOf(m, kind)["guard"]

IsConst(value) == value \in {Const("true"), Const("false")}

HasFunction(name) == \E f \in Range(functions) : f.name = name

GuardFunctionName(m, kind) == <<m.name, "", kind, "guard">>

\* ------------------------------------------------------------------ properties

\* C1: for every model without an allow rule for `update`, the model-level
\* `update` guard is the constant false when the model has no `postUpdate`
\* allow rule and the constant true when it has one, and no guard function is
\* generated for it.
C1_UpdateGuardDefault ==
    \A m \in Models :
        (ModelLevelWritten(m) /\ RulesFor(m, "@@allow", "update") = {}) =>
            /\ GuardOf(m, "update") =
                   (IF RulesFor(m, "@@allow", "postUpdate") = {}
                    THEN Const("false") ELSE Const("true"))
            /\ ~ HasFunction(GuardFunctionName(m, "update"))

\* a finished run where one model has a postUpdate allow rule and an update
\* deny rule but no update allow rule (guard true), and another model has no
\* rule at all (guard false)
C1_Witness ==
    /\ pc = "done"
    /\ \E m \in Models :
          /\ RulesFor(m, "@@allow", "update") = {}
          /\ RulesFor(m, "@@allow", "postUpdate") # {}
          /\ RulesFor(m, "@@deny", "update") # {}
          /\ GuardOf(m, "update") = Const("true")
    /\ \E m \in Models :
          /\ RulesFor(m, "@@allow", "update") = {}
          /\ RulesFor(m, "@@allow", "postUpdate") = {}
          /\ GuardOf(m, "update") = Const("false")

\* C2: for every model with neither an allow nor a deny rule for
\* `postUpdate`, the model-level `postUpdate` guard is the constant true and no
\* guard function is generated for it.
C2_PostUpdateGuardDefault ==
    \A m \in Models :
        (/\ ModelLevelWritten(m)
         /\ RulesFor(m, "@@allow", "postUpdate") = {}
         /\ RulesFor(m, "@@deny", "postUpdate") = {}) =>
            /\ GuardOf(m, "postUpdate") = Const("true")
            /\ ~ HasFunction(GuardFunctionName(m, "postUpdate"))

\* a finished run where a model has only an `update` allow rule over a
\* non-relational field, and its postUpdate guard is the constant true
C2_Witness ==
    /\ pc = "done"
    /\ \E m \in Models :
          /\ \E a \in Range(m.attributes) :
                a.decl = "@@allow" /\ a.kindArg = "update" /\ a.value = "Published"
          /\ RulesFor(m, "@@allow", "postUpdate") = {}
          /\ RulesFor(m, "@@deny", "postUpdate") = {}
          /\ GuardOf(m, "postUpdate") = Const("true")
          /\ ~ IsConst(GuardOf(m, "update"))

\* C4: for every model with no policy attribute applying to `read`, the
\* constant analysis of `read` is false and the model-level `read` guard is
\* the constant false, with no guard function generated.
C4_ReadDenyByDefault ==
    \A m \in Models :
        (/\ ModelLevelWritten(m)
         /\ RulesFor(m, "@@allow", "read") = {}
         /\ RulesFor(m, "@@deny", "read") = {}) =>
            /\ analyzePolicies(m)["read"] = "false"
            /\ GuardOf(m, "read") = Const("false")
            /\ ~ HasFunction(GuardFunctionName(m, "read"))

\* a finished run where a model has rules, none of them for `read`, and its
\* read guard is the constant false
C4_Witness ==
    /\ pc = "done"
    /\ \E m \in Models :
          /\ RulesFor(m, "@@allow", "create") # {}
          /\ RulesFor(m, "@@allow", "read") = {}
          /\ RulesFor(m, "@@deny", "read") = {}
          /\ GuardOf(m, "read") = Const("false")

\* C5: for every model that declares @@allow('all', true) and has no deny
\* rule, each of the five kinds is written with the constant guard true and
\* no guard function is generated for the model.
C5_AllowAllIsConstantTrue ==
    \A m \in Models :
        (/\ ModelLevelWritten(m)
         /\ \E a \in Range(m.attributes) :
               a.decl = "@@allow" /\ a.kindArg = "all" /\ isLiteralTrue(a.value)
         /\ ~ \E a \in Range(m.attributes) : a.decl = "@@deny") =>
            \A kind \in KindSet :
                /\ GuardOf(m, kind) = Const("true")
                /\ ~ HasFunction(GuardFunctionName(m, kind))

\* a finished run where a model declares @@allow('all', true) next to another
\* allow rule, and all five guards are the constant true
C5_Witness ==
    /\ pc = "done"
    /\ \E m \in Models :
          /\ \E a \in Range(m.attributes) :
                a.decl = "@@allow" /\ a.kindArg = "all" /\ isLiteralTrue(a.value)
          /\ \E a \in Range(m.attributes) :
                a.decl = "@@allow" /\ ~ isLiteralTrue(a.value)
          /\ \A kind \in KindSet : GuardOf(m, kind) = Const("true")

\* C3 (the claim's safety clause): for every model and every kind, the
\* model-level guard is never the constant true, and never evaluates to
\* allow, when some deny rule that applies to the kind holds.
C3_GuardNeverAllowsUnderDeny ==
    \A m \in Models : ModelLevelWritten(m) =>
        \A kind \in KindSet : \A env \in Envs :
            (\E d \in RulesFor(m, "@@deny", kind) : Truth(d.value, env)) =>
                /\ GuardOf(m, kind) # Const("true")
                /\ ~ EvalGuard(GuardOf(m, kind), env)

\* the create rules of a model
CreateRules(m) == RulesFor(m, "@@allow", "create") \cup RulesFor(m, "@@deny", "create")

\* the input-checkable test as the claim words it: no `this`, no reference
\* of relation type, no reference to a field carrying @default (of the model
\* itself only, when ownOnly), no reference to a foreign-key field
WordedCheckable(m, rule, ownOnly) ==
    \A n \in NodeSet(rule) :
        /\ n.type # "ThisExpr"
        /\ n.type = "ReferenceExpr" =>
              \A f \in FieldDecl(n.container, n.name) :
                  /\ f.type \notin Range(ModelNames)
                  /\ ~ (hasAttribute(f, "@default") /\ (ownOnly => f.container = m.name))
                  /\ ~ isForeignKeyField(f)

InputCheckerName(m) == <<m.name, "", "create", "input">>

HasInputChecker(m) ==
    /\ "inputChecker" \in DOMAIN EntryOf(m, "create")
    /\ HasFunction(InputCheckerName(m))

\* C6 as claimed: an input checker is emitted for a model's create kind
\* exactly when no create rule of the model contains `this`, a reference of
\* relation type, a reference to a field carrying @default, or a reference to
\* a foreign-key field.
C6_InputCheckerIffCheckable ==
    \A m \in Models : ModelLevelWritten(m) =>
        (HasInputChecker(m) <=> \A r \in CreateRules(m) : WordedCheckable(m, r.value, FALSE))

\* C6 as amended: the same, where the @default test is on references to
\* fields of the model itself; a reference to a @default field of another
\* model does not suppress the input checker.
C6_InputCheckerIffCheckableOwnDefault ==
    \A m \in Models : ModelLevelWritten(m) =>
        /\ HasInputChecker(m) <=> \A r \in CreateRules(m) : WordedCheckable(m, r.value, TRUE)
        /\ ~ HasInputChecker(m) =>
              /\ "inputChecker" \notin DOMAIN EntryOf(m, "create")
              /\ ~ HasFunction(InputCheckerName(m))

\* a finished run where a create rule of a model refers to a @default field
\* of another model and the input checker is emitted, while a second model
\* has none
C6_Witness ==
    /\ pc = "done"
    /\ \E m \in Models :
          /\ \E r \in CreateRules(m) : \E n \in NodeSet(r.value) :
                /\ n.type = "ReferenceExpr"
                /\ \E f \in FieldDecl(n.container, n.name) :
                      hasAttribute(f, "@default") /\ f.container # m.name
          /\ HasInputChecker(m)
    /\ \E m \in Models : CreateRules(m) = {} /\ HasInputChecker(m)

\* the policy attributes of a model and of its fields
PolicyAttrsOf(m) ==
    {a \in Range(m.attributes) \cup UNION {Range(f.attributes) : f \in Range(m.fields)} :
        a.decl \in {"@@allow", "@@deny", "@allow", "@deny"}}

\* C7: create rules that fail the input-checkable test are no generation
\* error: the run is in the failed state only when a rule of the model at
\* hand has a shape the transformer rejects, and is otherwise at a step of
\* generate() that can be taken (or done, with every model written), the
\* model's `create` entry carries its guard (and its permission checker
\* exactly when that is enabled) and only lacks the input checker, every kind
\* of the model has its guard, and the models whose create rules pass the
\* test keep their input checker.
C7_UncheckableCreateOnlyDropsInputChecker ==
    /\ pc \in {"start", "modelLevel", "fieldLevel", "validation", "authSelector",
              "save", "done", "error"}
    /\ pc \in {"modelLevel", "fieldLevel", "error"} => idx \in 1..Len(schema)
    /\ pc = "error" => \E a \in PolicyAttrsOf(schema[idx]) : ~ transform(a.value)
    /\ pc = "done" => \A m \in Models : FieldLevelWritten(m)
    /\ \A m \in Models :
          (/\ ModelLevelWritten(m)
           /\ \E r \in CreateRules(m) : ~ WordedCheckable(m, r.value, TRUE)) =>
              /\ DOMAIN EntryOf(m, "create") =
                     {"guard"} \cup (IF options.generatePermissionChecker = "true"
                                     THEN {"permissionChecker"} ELSE {})
              /\ \A kind \in KindSet : "guard" \in DOMAIN EntryOf(m, kind)
              /\ \A o \in Models :
                    (/\ ModelLevelWritten(o)
                     /\ \A r \in CreateRules(o) : WordedCheckable(o, r.value, TRUE)) =>
                        HasInputChecker(o)

\* a finished run where one model has an uncheckable create rule and a guard
\* function for create, and another model has its input checker
C7_Witness ==
    /\ pc = "done"
    /\ \E m \in Models :
          /\ \E r \in CreateRules(m) : ~ WordedCheckable(m, r.value, TRUE)
          /\ HasFunction(GuardFunctionName(m, "create"))
          /\ "inputChecker" \notin DOMAIN EntryOf(m, "create")
          /\ \E o \in Models : o # m /\ HasInputChecker(o)

\* C8: a permissionChecker entry is written for a (model, kind) pair only
\* when the option generatePermissionChecker is exactly true and the kind is
\* read, create, update or delete; otherwise no permission checker entry or
\* function exists, and postUpdate never has one.
C8_PermissionCheckerOnlyWhenEnabled ==
    /\ \A m \in Models : ModelLevelWritten(m) =>
          \A kind \in KindSet :
              "permissionChecker" \in DOMAIN EntryOf(m, kind) =>
                  /\ options.generatePermissionChecker = "true"
                  /\ kind \in PolicyCrudKind
    /\ \A f \in Range(functions) :
          f.shape = "permissionChecker" =>
              /\ options.generatePermissionChecker = "true"
              /\ f.name[3] \in PolicyCrudKind

\* a finished run with the option enabled where a model has a generated
\* permission checker for read and none for postUpdate, although postUpdate
\* has a guard function
C8_Witness ==
    /\ pc = "done"
    /\ options.generatePermissionChecker = "true"
    /\ \E m \in Models :
          /\ HasFunction(<<m.name, "", "read", "checker">>)
          /\ EntryOf(m, "read")["permissionChecker"] = <<m.name, "", "read", "checker">>
          /\ HasFunction(GuardFunctionName(m, "postUpdate"))
          /\ "permissionChecker" \notin DOMAIN EntryOf(m, "postUpdate")

\* the rules of the Post example: @@allow('read', published == true) and
\* @@allow('all', auth().id == authorId)
PostExampleRules ==
    {PolicyAttr("@@allow", "read", "Published", FALSE),
     PolicyAttr("@@allow", "all", "AuthIsAuthor", FALSE)}

IsPostExample(m) ==
    /\ m.name = "Post"
    /\ {f.name : f \in Range(m.fields)} = {"id", "title", "published", "authorId"}
    /\ Range(m.attributes) = PostExampleRules
    /\ \A f \in Range(m.fields) : ~ \E a \in Range(f.attributes) : a.decl \in {"@allow", "@deny"}

\* C9: for the Post example, generation yields a read guard equivalent to
\* `published == true OR auth.id == authorId`, create, update and delete
\* guards equivalent to `auth.id == authorId`, and (no other model having
\* policy rules) an authSelector equal to {id: true}.
C9_PostExample ==
    \A m \in Models : (pc = "done" /\ IsPostExample(m)) =>
        /\ \A env \in Envs :
              /\ EvalGuard(GuardOf(m, "read"), env) = (env["Published"] \/ env["AuthIsAuthor"])
              /\ \A kind \in {"create", "update", "delete"} :
                    EvalGuard(GuardOf(m, kind), env) = env["AuthIsAuthor"]
        /\ (\A o \in Models \ {m} : Range(o.attributes) = {}) =>
              authSelector = {"id" :> Leaf}

C9_Witness ==
    /\ pc = "done"
    /\ \E m \in Models :
          /\ IsPostExample(m)
          /\ ~ IsConst(GuardOf(m, "read"))
          /\ authSelector = {"id" :> Leaf}

\* the override guard function written for a field and kind, as a set
OverrideGuardOf(m, kind, field) ==
    LET fieldLevel == policy[m.name]["fieldLevel"] IN
    IF /\ kind \in DOMAIN fieldLevel
       /\ "overrideGuard" \in DOMAIN fieldLevel[kind]
       /\ field.name \in DOMAIN fieldLevel[kind]["overrideGuard"]
    THEN {f \in Range(functions) : f.name = fieldLevel[kind]["overrideGuard"][field.name]}
    ELSE {}

OverrideAllowValues(field, kind) ==
    {a.value : a \in {x \in RulesFor(field, "@allow", kind) : x.override}}

\* C10 as claimed: the override guard of a field is built only from the
\* field's override-marked allow rules (no other allow rule and no deny rule
\* of the field is compiled into it) and exists only when the field has an
\* override-marked allow rule.
C10_OverrideGuardFromOverrideAllowsOnly ==
    \A m \in Models : FieldLevelWritten(m) =>
        \A kind \in {"read", "update"} : \A field \in Range(m.fields) :
            \A g \in OverrideGuardOf(m, kind, field) :
                /\ OverrideAllowValues(field, kind) # {}
                /\ Range(g.allows) = OverrideAllowValues(field, kind)
                /\ Range(g.denies) = {}

\* C10 as amended: the override guard of a field is built from the field's
\* override-marked allow rules and from the field's deny rules for the kind;
\* no allow rule that is not override-marked is compiled into it, and it
\* exists only when the field has an override-marked allow rule.
C10_OverrideGuardFromOverrideAllowsAndDenies ==
    \A m \in Models : FieldLevelWritten(m) =>
        \A kind \in {"read", "update"} : \A field \in Range(m.fields) :
            \A g \in OverrideGuardOf(m, kind, field) :
                /\ OverrideAllowValues(field, kind) # {}
                /\ Range(g.allows) = OverrideAllowValues(field, kind)
                /\ Range(g.denies) = {a.value : a \in RulesFor(field, "@deny", kind)}

\* a finished run where a field has an override allow rule and a plain allow
\* rule for the same kind, and its override guard exists
C10_Witness ==
    /\ pc = "done"
    /\ \E m \in Models : \E kind \in {"read", "update"} : \E field \in Range(m.fields) :
          /\ OverrideGuardOf(m, kind, field) # {}
          /\ \E a \in RulesFor(field, "@allow", kind) : ~ a.override

\* ------------------------------------------------------------------ C11

IsModelPolicyAttr(a) == a.decl \in {"@@allow", "@@deny"}

IsFieldPolicyAttr(a) == a.decl \in {"@allow", "@deny"}

\* the model with its model-level policy attributes replaced by `attrs`
WithModelRules(m, attrs) ==
    [m EXCEPT !.attributes =
        SelectSeq(@, LAMBDA a : ~ IsModelPolicyAttr(a)) \o attrs]

\* the model with the field-level policy attributes of its fields replaced:
\* those of field `name` by `attrs`, those of the other fields by none
WithFieldRules(m, name, attrs) ==
    [m EXCEPT !.fields = MapSeq(@, LAMBDA f :
        [f EXCEPT !.attributes =
            SelectSeq(@, LAMBDA a : ~ IsFieldPolicyAttr(a))
            \o (IF f.name = name THEN attrs ELSE <<>>)])]

\* C11: in the artifact of a finished run, the fieldLevel subtree of every
\* model is the one the generator writes for the same model without any
\* model-level @@allow/@@deny rule, and the modelLevel subtree is the one it
\* writes for the model without any field-level @allow/@deny rule; so two
\* schemas that differ in the model-level rules only have the same
\* fieldLevel subtrees, and two that differ in the field-level rules only
\* have the same modelLevel subtrees.
C11_LevelsEmittedIndependently ==
    pc = "done" => \A m \in Models :
        /\ policy[m.name]["fieldLevel"]
              = writeFieldLevelDefs(WithModelRules(m, <<>>)).entry
        /\ policy[m.name]["modelLevel"]
              = writeModelLevelDefs(WithFieldRules(m, "", <<>>)).entry

\* a finished run with a model that has model-level rules compiled into a
\* guard function and field-level rules written into both field-level blocks
C11_Witness ==
    /\ pc = "done"
    /\ \E m \in Models :
          /\ \E a \in Range(m.attributes) : IsModelPolicyAttr(a)
          /\ \E kind \in KindSet : ~ IsConst(GuardOf(m, kind))
          /\ DOMAIN policy[m.name]["fieldLevel"] # {}

\* ------------------------------------------------------------------ C12

\* the members of auth() accessed by the policy rules of a set of models
AuthMembers(models) ==
    {n.name : n \in {x \in UNION {NodeSet(a.value) :
                          a \in UNION {PolicyAttrsOf(m) : m \in models}} :
                      x.type = "MemberAccessExpr" /\ x.container = "auth"}}

\* C12: the authSelector is written in one step that is taken only when the
\* model-level and field-level definitions of every model are written; it
\* is absent before that step, and after it it selects exactly the auth()
\* members accessed by the model-level and field-level rules of all the
\* models of the schema.
C12_AuthSelectorAfterAllModels ==
    /\ pc = "authSelector" => \A m \in Models : FieldLevelWritten(m)
    /\ pc \notin {"save", "done"} => authSelector = Absent
    /\ pc \in {"save", "done"} =>
          authSelector = (IF AuthMembers(Models) = {} THEN Absent
                          ELSE {[name \in AuthMembers(Models) |-> Leaf]})

\* a finished run whose authSelector merges an auth() member used by a
\* field-level rule of one model with one used by a model-level rule of
\* another model
C12_Witness ==
    /\ pc = "done"
    /\ authSelector # Absent
    /\ \E m \in Models, o \in Models :
          /\ m # o
          /\ \E f \in Range(m.fields) : \E a \in Range(f.attributes) :
                /\ IsFieldPolicyAttr(a)
                /\ \E n \in NodeSet(a.value) :
                      n.type = "MemberAccessExpr" /\ n.container = "auth"
          /\ AuthMembers({o}) # {}
          /\ AuthMembers({m}) # AuthMembers({o})
          /\ \A s \in authSelector :
                DOMAIN s = AuthMembers({m}) \cup AuthMembers({o})

\* ------------------------------------------------------------------ C15

\* how many functions of the source file carry the name
FunctionCount(name) == Cardinality({i \in DOMAIN functions : functions[i].name = name})

\* C15: every model whose model-level definitions are written has one
\* modelLevel entry with exactly the kinds read, create, update, postUpdate
\* and delete; each kind has one guard, a constant or the name of exactly
\* one generated function; inputChecker appears under create only and
\* preUpdateSelector under postUpdate only; a finished run has an entry for
\* every model of the schema, and no other.
C15_OneModelLevelEntryFiveKinds ==
    /\ \A m \in Models : ModelLevelWritten(m) =>
          /\ DOMAIN policy[m.name]["modelLevel"] = KindSet
          /\ \A kind \in KindSet :
                /\ "guard" \in DOMAIN EntryOf(m, kind)
                /\ \/ IsConst(GuardOf(m, kind)) /\ FunctionCount(GuardOf(m, kind)) = 0
                   \/ /\ GuardOf(m, kind) = GuardFunctionName(m, kind)
                      /\ FunctionCount(GuardOf(m, kind)) = 1
                /\ "inputChecker" \in DOMAIN EntryOf(m, kind) => kind = "create"
                /\ "preUpdateSelector" \in DOMAIN EntryOf(m, kind) => kind = "postUpdate"
    /\ pc \in {"validation", "authSelector", "save", "done"} =>
          /\ DOMAIN policy = {m.name : m \in Models}
          /\ Cardinality(DOMAIN policy) = Len(schema)

\* a finished run over two models where one model has a guard function for
\* each of the five kinds, an input checker and a pre-update selector
C15_Witness ==
    /\ pc = "done"
    /\ Len(schema) = 2
    /\ \E m \in Models :
          /\ \A kind \in KindSet : FunctionCount(GuardOf(m, kind)) = 1
          /\ "inputChecker" \in DOMAIN EntryOf(m, "create")
          /\ "preUpdateSelector" \in DOMAIN EntryOf(m, "postUpdate")

\* ------------------------------------------------------------------ C18

\* the input checkers the source file holds for a model
InputCheckersOf(m) == {f \in Range(functions) : f.name = InputCheckerName(m)}

\* C18: in a finished run, the input checker emitted for a model accepts a
\* payload exactly when no create deny rule of the model holds and some
\* create allow rule holds; for a model without a create allow rule, and so
\* for every model whose create guard is the constant false, it accepts no
\* payload.
C18_InputCheckerDecidesDenyThenAllow ==
    \A m \in Models : (pc = "done" /\ HasInputChecker(m)) =>
        \A f \in InputCheckersOf(m) : \A env \in Envs :
            /\ EvalInputChecker(f, env) =
                  (/\ ~ \E d \in RulesFor(m, "@@deny", "create") : Truth(d.value, env)
                   /\ \E a \in RulesFor(m, "@@allow", "create") : Truth(a.value, env))
            /\ RulesFor(m, "@@allow", "create") = {} => ~ EvalInputChecker(f, env)
            /\ GuardOf(m, "create") = Const("false") => ~ EvalInputChecker(f, env)

\* a finished run with an input checker built from an allow and a deny rule
\* that accepts some payload, and an input checker of a model that has no
\* create allow rule and the constant false as create guard
C18_Witness ==
    /\ pc = "done"
    /\ \E m \in Models :
          /\ HasInputChecker(m)
          /\ RulesFor(m, "@@deny", "create") # {}
          /\ RulesFor(m, "@@allow", "create") # {}
          /\ \E env \in Envs : \E f \in InputCheckersOf(m) : EvalInputChecker(f, env)
    /\ \E o \in Models :
          /\ HasInputChecker(o)
          /\ RulesFor(o, "@@allow", "create") = {}
          /\ GuardOf(o, "create") = Const("false")

\* ------------------------------------------------------------------ C19

C19_ConstantsAgreeButUpdateWithPostUpdate ==
    \A m \in Models : ModelLevelWritten(m) =>
        \A kind \in PolicyCrudKind :
            (/\ options.generatePermissionChecker = "true"
             /\ "permissionChecker" \in DOMAIN EntryOf(m, kind)
             /\ IsConst(GuardOf(m, kind))
             /\ IsConst(EntryOf(m, kind)["permissionChecker"])
             /\ ~ (/\ kind = "update"
                   /\ RulesFor(m, "@@allow", "update") = {}
                   /\ RulesFor(m, "@@allow", "postUpdate") # {})) =>
                GuardOf(m, kind) = EntryOf(m, kind)["permissionChecker"]

\* ------------------------------------------------------------------ C20

FieldLevelOf(m) == policy[m.name]["fieldLevel"]

\* the key under which a field-level block lists the fields it checks
CheckKey(kind) == IF kind = "read" THEN "checker" ELSE "guard"

\* the fields of a model carrying an @allow or @deny rule for the kind
FieldsCarryingRules(m, kind) ==
    {f.name : f \in {g \in Range(m.fields) :
        RulesFor(g, "@allow", kind) \cup RulesFor(g, "@deny", kind) # {}}}

\* C20: in the fieldLevel subtree of every model there are blocks for read
\* and update only; a field is listed in a block only if it carries an allow
\* or deny rule for that kind; the fields with an overrideGuard are among
\* the fields with a read checker (read) or an update guard (update); the
\* read block, and its selector, is written only when some field has a read
\* checker.
C20_FieldLevelEntriesOnlyForFieldsWithRules ==
    \A m \in Models : FieldLevelWritten(m) =>
        /\ DOMAIN FieldLevelOf(m) \subseteq {"read", "update"}
        /\ \A kind \in DOMAIN FieldLevelOf(m) :
              LET block == FieldLevelOf(m)[kind]
              IN /\ \A key \in DOMAIN block \ {"selector"} :
                        DOMAIN block[key] \subseteq FieldsCarryingRules(m, kind)
                 /\ "overrideGuard" \in DOMAIN block =>
                        /\ CheckKey(kind) \in DOMAIN block
                        /\ DOMAIN block["overrideGuard"] \subseteq DOMAIN block[CheckKey(kind)]
        /\ "read" \in DOMAIN FieldLevelOf(m) =>
              /\ "checker" \in DOMAIN FieldLevelOf(m)["read"]
              /\ DOMAIN FieldLevelOf(m)["read"]["checker"] # {}
        /\ "update" \in DOMAIN FieldLevelOf(m) =>
              "selector" \notin DOMAIN FieldLevelOf(m)["update"]

\* a finished run with a model whose read block has a checker, a selector
\* and an override guard for one field, whose update block has a guard, and
\* which has fields without any entry
C20_Witness ==
    /\ pc = "done"
    /\ \E m \in Models :
          /\ DOMAIN FieldLevelOf(m) = {"read", "update"}
          /\ DOMAIN FieldLevelOf(m)["read"] = {"checker", "selector", "overrideGuard"}
          /\ DOMAIN FieldLevelOf(m)["read"]["overrideGuard"] # {}
          /\ DOMAIN FieldLevelOf(m)["update"] = {"guard"}
          /\ \E f \in Range(m.fields) :
                f.name \notin DOMAIN FieldLevelOf(m)["read"]["checker"]

\* ------------------------------------------------------------------ C16

Reverse(seq) == [i \in 1..Len(seq) |-> seq[Len(seq) + 1 - i]]

\* select shapes with nested relation selects
ShapeSamples ==
    {"id" :> Leaf,
     "owner" :> ("id" :> Leaf),
     ("owner" :> ("email" :> Leaf)) @@ ("title" :> Leaf)}

\* the selectors of the artifact written so far
EmittedSelectors ==
    authSelector
    \cup UNION {IF "preUpdateSelector" \in DOMAIN EntryOf(m, "postUpdate")
                THEN EntryOf(m, "postUpdate")["preUpdateSelector"] ELSE {} :
                m \in {x \in Models : ModelLevelWritten(x)}}
    \cup UNION {IF "read" \in DOMAIN policy[m.name]["fieldLevel"]
                   /\ "selector" \in DOMAIN policy[m.name]["fieldLevel"]["read"]
                THEN policy[m.name]["fieldLevel"]["read"]["selector"] ELSE {} :
                m \in {x \in Models : FieldLevelWritten(x)}}

\* the rules a selector of the artifact is computed from, in schema order
PostUpdateRuleValues(m) ==
    getPolicyExpressions(m, "allow", "postUpdate", FALSE)
    \o getPolicyExpressions(m, "deny", "postUpdate", FALSE)

FieldReadRuleValues(m) ==
    Flatten(MapSeq(m.fields, LAMBDA f :
        getPolicyExpressions(f, "allow", "read", FALSE)
        \o getPolicyExpressions(f, "deny", "read", FALSE)))

AuthMemberAccesses ==
    Flatten(MapSeq(schema, LAMBDA m :
        Flatten(MapSeq(MapSeq(SelectSeq(m.attributes, IsModelPolicyAttr)
                              \o SelectSeq(Flatten(MapSeq(m.fields, LAMBDA f : f.attributes)),
                                           IsFieldPolicyAttr),
                              LAMBDA a : a.value),
                       LAMBDA rule : SelectSeq(ExprNodes(rule),
                           LAMBDA node : node.type = "MemberAccessExpr"
                                         /\ node.container = "auth")))))

\* C16: the union of select shapes is associative, commutative and
\* idempotent and keeps every field of either operand, over the selectors of
\* a finished artifact and shapes with nested selects; and the preUpdateSelector,
\* the field-read selector and the authSelector of a finished artifact are
\* the ones computed from the same rules in reverse order.
C16_SelectorUnionOrderIndependent ==
    /\ pc = "done" =>
          \A A \in ShapeSamples \cup EmittedSelectors :
          \A B \in ShapeSamples \cup EmittedSelectors :
             /\ Union(A, A) = A
             /\ Union(A, B) = Union(B, A)
             /\ DOMAIN Union(A, B) = DOMAIN A \cup DOMAIN B
             /\ \A C \in ShapeSamples :
                   /\ Union(Union(A, B), C) = Union(A, Union(B, C))
                   /\ Union(Union(C, A), B) = Union(C, Union(A, B))
    /\ pc = "done" => \A m \in Models :
          (IF "preUpdateSelector" \in DOMAIN EntryOf(m, "postUpdate")
           THEN EntryOf(m, "postUpdate")["preUpdateSelector"] ELSE Absent)
              = generateSelectForRules(Reverse(PostUpdateRuleValues(m)), FALSE)
    /\ pc = "done" => \A m \in Models :
          "read" \in DOMAIN policy[m.name]["fieldLevel"] =>
              (IF "selector" \in DOMAIN policy[m.name]["fieldLevel"]["read"]
               THEN policy[m.name]["fieldLevel"]["read"]["selector"] ELSE Absent)
                  = generateSelectForRules(Reverse(FieldReadRuleValues(m)), FALSE)
    /\ pc = "done" =>
          authSelector = (IF Len(AuthMemberAccesses) = 0 THEN Absent
                          ELSE generateSelectForRules(Reverse(AuthMemberAccesses), TRUE))

\* a finished run with a preUpdateSelector merged from two rules that select
\* different fields
C16_Witness ==
    /\ pc = "done"
    /\ \E m \in Models :
          /\ Len(PostUpdateRuleValues(m)) = 2
          /\ generateSelectForRules(<<PostUpdateRuleValues(m)[1]>>, FALSE)
                # generateSelectForRules(<<PostUpdateRuleValues(m)[2]>>, FALSE)
          /\ generateSelectForRules(<<PostUpdateRuleValues(m)[1]>>, FALSE) # Absent
          /\ generateSelectForRules(<<PostUpdateRuleValues(m)[2]>>, FALSE) # Absent
          /\ "preUpdateSelector" \in DOMAIN EntryOf(m, "postUpdate")
          /\ \A s \in EntryOf(m, "postUpdate")["preUpdateSelector"] :
                Cardinality(DOMAIN s) = 2

\* ------------------------------------------------------------------ C13

\* a second call has returned or thrown
SecondRunOver == previous # Absent /\ pc \in {"done", "error"}

\* C13: when generate() is called a second time with the same schema and
\* options, it ends as the first call did, with the same functions in the
\* same order, the same policy object, validation block and authSelector;
\* the second call starts from an empty source file.
C13_GenerateTwiceIdentical ==
    \A first \in previous :
        /\ pc = "start" =>
              functions = <<>> /\ policy = <<>> /\ validation = <<>> /\ authSelector = Absent
        /\ (SecondRunOver /\ schema = first.schema) =>
              /\ pc = first.pc
              /\ Artifact = first.artifact

\* a second call on the same two-model schema has finished, and the source
\* file holds functions and a policy entry for each model
C13_Witness ==
    /\ SecondRunOver
    /\ pc = "done"
    /\ Len(schema) = 2
    /\ Len(functions) > 2
    /\ \E first \in previous : schema = first.schema /\ first.artifact.functions # <<>>

\* ------------------------------------------------------------------ C17

FunctionsOfModel(funcs, name) == {f \in Range(funcs) : f.name[1] = name}

\* C17: a model declared in both schemas handed to two generate() calls,
\* with the same attributes and fields, has the same modelLevel and
\* fieldLevel definitions and the same functions in both artifacts, whatever
\* the order of the models and whatever rules the other models declare; with
\* the models in the opposite order the whole policy object and the set of
\* functions are the same.
C17_PerModelEmissionStateless ==
    \A first \in previous :
        (pc = "done" /\ first.pc = "done") =>
            /\ \A m \in Models : m \in Range(first.schema) =>
                  /\ policy[m.name] = first.artifact.policy[m.name]
                  /\ FunctionsOfModel(functions, m.name)
                        = FunctionsOfModel(first.artifact.functions, m.name)
            /\ Range(schema) = Range(first.schema) =>
                  /\ policy = first.artifact.policy
                  /\ Range(functions) = Range(first.artifact.functions)

\* two finished calls: the second with the models in the opposite order, both
\* models with functions of their own
C17_Witness ==
    /\ pc = "done"
    /\ Len(schema) = 2
    /\ \E first \in previous :
          /\ first.pc = "done"
          /\ schema # first.schema
          /\ Range(schema) = Range(first.schema)
          /\ \A m \in Models : FunctionsOfModel(functions, m.name) # {}

\* ------------------------------------------------------------------ C14

\* an artifact with the definitions of every model of the schema and the
\* validation block
FullArtifact(artifact) ==
    /\ DOMAIN artifact.policy = {m.name : m \in Models}
    /\ \A name \in DOMAIN artifact.policy :
          DOMAIN artifact.policy[name] = {"modelLevel", "fieldLevel"}
    /\ DOMAIN artifact.validation = {m.name : m \in Models}

\* the run either completes with the full artifact or fails, and a failed
\* run saves nothing; what is saved is a full artifact
RunCompletesOrSavesNothing ==
    /\ pc = "done" => FullArtifact(Artifact)
    /\ pc = "error" => saved = Absent
    /\ \A artifact \in saved : pc = "done" /\ artifact = Artifact

\* C14: a run either completes with the full artifact (policy entries of
\* every model, validation block, authSelector when needed) or fails; a
\* failed run saves no policy.ts; and no rule is skipped: a schema with a
\* rule the transformer rejects does not complete.
C14_GenerationAllOrNothing ==
    /\ RunCompletesOrSavesNothing
    /\ pc = "done" => \A m \in Models : \A a \in PolicyAttrsOf(m) : transform(a.value)

\* the run completes or saves nothing, and a rule the transformer rejects
\* fails the run whenever it is compiled into a function: a finished run has
\* no function built from such a rule
C14_FailsWhenRejectedRuleIsCompiled ==
    /\ RunCompletesOrSavesNothing
    /\ pc = "done" =>
          \A f \in Range(functions) :
              \A rule \in Range(f.allows \o f.denies) :
                  transform(rule) \/ (f.shape = "inputChecker" /\ Len(f.allows) = 0)
    /\ pc = "error" => \E a \in PolicyAttrsOf(schema[idx]) : ~ transform(a.value)

\* a run that failed in the second model after the first model was written
C14_FailedAfterFirstModel ==
    /\ pc = "error"
    /\ idx = 2
    /\ DOMAIN policy # {}
    /\ functions # <<>>

\* ------------------------------------------------------------------ C21

FieldReadCheckerName(m, field) == <<m.name, field.name, "read", "checker">>

\* the read checkers the source file holds for a field
FieldReadCheckersOf(m, field) ==
    {f \in Range(functions) : f.name = FieldReadCheckerName(m, field)}

HasFieldReadChecker(m, field) ==
    /\ "read" \in DOMAIN FieldLevelOf(m)
    /\ "checker" \in DOMAIN FieldLevelOf(m)["read"]
    /\ field.name \in DOMAIN FieldLevelOf(m)["read"]["checker"]

\* C21: in a finished run, the read checker of a field allows a read exactly
\* when none of the field's read deny rules holds (if it has any) and one of
\* its read allow rules holds (if it has any): with deny rules only the
\* field is readable whenever no deny rule holds, with allow rules only
\* exactly when one holds; and a field without read rules has no checker
\* entry and no checker function.
C21_FieldReadCheckerDecidesDenyThenAllow ==
    pc = "done" => \A m \in Models : \A field \in Range(m.fields) :
        LET allows == RulesFor(field, "@allow", "read")
            denies == RulesFor(field, "@deny", "read")
        IN /\ HasFieldReadChecker(m, field) <=> (allows \cup denies # {})
           /\ FieldReadCheckersOf(m, field) # {} <=> (allows \cup denies # {})
           /\ \A f \in FieldReadCheckersOf(m, field) : \A env \in Envs :
                 EvalFieldReadChecker(f, env) =
                    (/\ denies # {} => ~ \E d \in denies : Truth(d.value, env)
                     /\ allows # {} => \E a \in allows : Truth(a.value, env))

\* a finished run where a field with a read deny rule and no read allow rule
\* has a checker that lets the read through when the deny rule does not hold
C21_Witness ==
    /\ pc = "done"
    /\ \E m \in Models : \E field \in Range(m.fields) :
          /\ RulesFor(field, "@deny", "read") # {}
          /\ RulesFor(field, "@allow", "read") = {}
          /\ HasFieldReadChecker(m, field)
          /\ \E f \in FieldReadCheckersOf(m, field) : \E env \in Envs :
                EvalFieldReadChecker(f, env)

\* ------------------------------------------------------------------ useModelMutation (tanstack-query runtime)

\* at most this many calls of mutationFn on one mounted hook
MaxMutations == 2

\* the generator is not part of the runtime hooks nor of the include helpers
GeneratorNotCalled ==
    /\ schema = <<>>
    /\ options = [generatePermissionChecker |-> "undefined",
                  preserveTsFiles |-> "undefined", output |-> "undefined"]
    /\ pc = "unused"
    /\ idx = 1
    /\ policy = <<>>
    /\ functions = <<>>
    /\ validation = <<>>
    /\ authSelector = Absent
    /\ saved = Absent
    /\ previous = Absent

\* a URL is kept as url.split('/') gives it: the sequence of its segments
\* ("/api/model/post/create", "/api/model/post/", "" and "update")
Urls ==
    {<<"", "api", "model", "post", "create">>,
     <<"", "api", "model", "post", "">>,
     <<"">>,
     <<"update">>}

Methods == {"POST", "PUT", "DELETE"}

\* the arguments handed to a mutation
MutationArgs == {"undefined", "{where:{id:1}}", "{data:{title:'a'}}"}

\* the options of the hook: none (Absent), or an object whose two extra
\* options are each true, false or left out
ExtraOptionValues == {"true", "false", "undefined"}

MutationOptions ==
    {Absent} \cup {{o} : o \in [invalidateQueries : ExtraOptionValues,
                               optimisticUpdate : ExtraOptionValues]}

\* Vue hands the options as a value, a ref or a getter (MaybeRefOrGetter |
\* ComputedRef); React hands the object itself
OptionCarriers == {"value", "ref", "getter", "computed"}

HookCalls ==
    {[framework |-> "react", model |-> "Post", method |-> m, url |-> u,
      options |-> [kind |-> "value", value |-> o]] :
         m \in Methods, u \in Urls, o \in MutationOptions}
    \cup
    {[framework |-> "vue", model |-> "Post", method |-> m, url |-> u,
      options |-> [kind |-> k, value |-> o]] :
         m \in Methods, u \in Urls, o \in MutationOptions, k \in OptionCarriers}

\* JavaScript truthiness of the values that occur here
Truthy(v) == v \notin {"undefined", "false", ""}

\* url.split('/').pop(): the last segment (split never gives an empty array)
pop(url) == url[Len(url)]

\* optionsValue?.key
optionOf(optionsValue, key) ==
    IF optionsValue = Absent THEN "undefined"
    ELSE (CHOOSE o \in optionsValue : TRUE)[key]

\* vue's toValue: unwraps a ref, calls a getter, returns a plain value
toValue(carrier) == carrier.value

\* makeUrl and marshal of the runtime's common module, kept as free
\* constructors: makeUrl appends the encoded arguments as a query to the
\* URL, marshal serializes the arguments
makeUrl(url, data) == url \o <<"?q=", data>>

marshal(data) == <<"marshal", data>>

JsonHeaders == ("content-type" :> "application/json")

\* react.ts mutationFn: what is handed to fetcher for the arguments `data`
reactMutationFn_DeleteKeepsUrl(method, url, data) ==
    [reqUrl |-> url,
     fetchInit |-> IF method # "DELETE"
                   THEN [method |-> method, headers |-> JsonHeaders, body |-> marshal(data)]
                   ELSE [method |-> method]]

reactMutationFn(method, url, data) ==
    [reqUrl |-> IF method = "DELETE" THEN makeUrl(url, data) ELSE url,
     fetchInit |-> IF method # "DELETE"
                   THEN [method |-> method, headers |-> JsonHeaders, body |-> marshal(data)]
                   ELSE [method |-> method]]

\* vue.ts mutationFn
vueMutationFn(method, url, data) ==
    [reqUrl |-> IF method = "DELETE" THEN makeUrl(url, data) ELSE url,
     fetchInit |-> IF method # "DELETE"
                   THEN [method |-> method, headers |-> JsonHeaders, body |-> marshal(data)]
                   ELSE [method |-> method]]

\* react.ts: operation, invalidateQueries and optimisticUpdate of the hook
reactLocals(call) ==
    [operation |-> pop(call.url),
     invalidateQueries |-> optionOf(call.options.value, "invalidateQueries") # "false",
     optimisticUpdate |-> Truthy(optionOf(call.options.value, "optimisticUpdate"))]

\* vue.ts: the same three, read from optionsValue = toValue(options)
vueLocals(call) ==
    LET optionsValue == toValue(call.options)
    IN [operation |-> pop(call.url),
        invalidateQueries |-> optionOf(optionsValue, "invalidateQueries") # "false",
        optimisticUpdate |-> Truthy(optionOf(optionsValue, "optimisticUpdate"))]

\* the call of setupInvalidation, when it is made
reactSetupInvalidation(call) ==
    LET l == reactLocals(call)
    IN IF Truthy(l.operation) /\ l.invalidateQueries
       THEN <<[fn |-> "setupInvalidation", model |-> call.model,
               operation |-> l.operation, invalidate |-> "callback"]>>
       ELSE <<>>

vueSetupInvalidation(call) ==
    LET l == vueLocals(call)
    IN IF Truthy(l.operation) /\ l.invalidateQueries
       THEN <<[fn |-> "setupInvalidation", model |-> call.model,
               operation |-> l.operation, invalidate |-> "callback"]>>
       ELSE <<>>

\* the call of setupOptimisticUpdate, when it is made
reactSetupOptimisticUpdate_AlwaysInvalidates(call) ==
    LET l == reactLocals(call)
    IN IF Truthy(l.operation) /\ l.optimisticUpdate
       THEN <<[fn |-> "setupOptimisticUpdate", model |-> call.model,
               operation |-> l.operation, invalidate |-> "callback"]>>
       ELSE <<>>

reactSetupOptimisticUpdate(call) ==
    LET l == reactLocals(call)
    IN IF Truthy(l.operation) /\ l.optimisticUpdate
       THEN <<[fn |-> "setupOptimisticUpdate", model |-> call.model,
               operation |-> l.operation,
               invalidate |-> IF l.invalidateQueries THEN "callback" ELSE "undefined"]>>
       ELSE <<>>

vueSetupOptimisticUpdate(call) ==
    LET l == vueLocals(call)
    IN IF Truthy(l.operation) /\ l.optimisticUpdate
       THEN <<[fn |-> "setupOptimisticUpdate", model |-> call.model,
               operation |-> l.operation,
               invalidate |-> IF l.invalidateQueries THEN "callback" ELSE "undefined"]>>
       ELSE <<>>

InitMutation ==
    /\ GeneratorNotCalled
    /\ IncludeHelpersNotCalled
    /\ hookCall \in HookCalls
    /\ hookPc = "call"
    /\ setups = <<>>
    /\ requests = <<>>

\* the hook is entered: queryClient, mutationFn, finalOptions and the locals
UseModelMutation ==
    /\ hookPc = "call"
    /\ hookPc' = "invalidation"
    /\ UNCHANGED <<hookCall, setups, requests, generatorVars, includeVars>>

\* if (operation) { if (invalidateQueries) setupInvalidation(...) }
SetupInvalidation ==
    /\ hookPc = "invalidation"
    /\ setups' = setups \o (IF hookCall.framework = "react"
                            THEN reactSetupInvalidation(hookCall)
                            ELSE vueSetupInvalidation(hookCall))
    /\ hookPc' = "optimistic"
    /\ UNCHANGED <<hookCall, requests, generatorVars, includeVars>>

\* if (operation) { if (optimisticUpdate) setupOptimisticUpdate(...) }
SetupOptimisticUpdate ==
    /\ hookPc = "optimistic"
    /\ setups' = setups \o (IF hookCall.framework = "react"
                            THEN reactSetupOptimisticUpdate(hookCall)
                            ELSE vueSetupOptimisticUpdate(hookCall))
    /\ hookPc' = "useMutation"
    /\ UNCHANGED <<hookCall, requests, generatorVars, includeVars>>

\* return useMutation(finalOptions)
UseMutation ==
    /\ hookPc = "useMutation"
    /\ hookPc' = "mounted"
    /\ UNCHANGED <<hookCall, setups, requests, generatorVars, includeVars>>

\* the mutation is run: useMutation calls mutationFn with the arguments
Mutate ==
    /\ hookPc = "mounted"
    /\ Len(requests) < MaxMutations
    /\ \E data \in MutationArgs :
          requests' = Append(requests,
              [data |-> data,
               sent |-> IF hookCall.framework = "react"
                        THEN reactMutationFn(hookCall.method, hookCall.url, data)
                        ELSE vueMutationFn(hookCall.method, hookCall.url, data)])
    /\ UNCHANGED <<hookCall, hookPc, setups, generatorVars, includeVars>>

NextMutation ==
    \/ UseModelMutation
    \/ SetupInvalidation
    \/ SetupOptimisticUpdate
    \/ UseMutation
    \/ Mutate

SpecMutation == InitMutation /\ [][NextMutation]_vars

\* ---- the vocabulary of the claims about useModelMutation

\* the options object the caller gave, whatever carries it
GivenOption(key) == optionOf(hookCall.options.value, key)

SetupIndexes(fn) == {i \in DOMAIN setups : setups[i].fn = fn}

\* C22: in useModelMutation, React and Vue alike, with a non-empty last path
\* segment the invalidation is set up unless invalidateQueries is exactly
\* false, and the optimistic update exactly when optimisticUpdate is truthy,
\* after the invalidation setup and with an invalidate callback only when
\* invalidation is enabled (undefined otherwise); with an empty last segment
\* neither is set up
C22_SetupsFollowOptionsInOrder ==
    hookPc # "unused" =>
        LET operation == hookCall.url[Len(hookCall.url)]
            invalidation == GivenOption("invalidateQueries") # "false"
            optimistic == GivenOption("optimisticUpdate") = "true"
        IN /\ operation = "" => setups = <<>>
           /\ Cardinality(SetupIndexes("setupInvalidation")) <= 1
           /\ Cardinality(SetupIndexes("setupOptimisticUpdate")) <= 1
           /\ SetupIndexes("setupInvalidation") # {} => operation # "" /\ invalidation
           /\ SetupIndexes("setupOptimisticUpdate") # {} => operation # "" /\ optimistic
           /\ (operation # "" /\ hookPc \in {"optimistic", "useMutation", "mounted"})
                 => (SetupIndexes("setupInvalidation") # {} <=> invalidation)
           /\ (operation # "" /\ hookPc \in {"useMutation", "mounted"})
                 => (SetupIndexes("setupOptimisticUpdate") # {} <=> optimistic)
           /\ \A i \in SetupIndexes("setupOptimisticUpdate") :
                 /\ \A j \in SetupIndexes("setupInvalidation") : j < i
                 /\ hookPc \notin {"call", "invalidation"}
                 /\ setups[i].invalidate = IF invalidation THEN "callback" ELSE "undefined"
                 /\ setups[i].operation = operation
           /\ \A j \in SetupIndexes("setupInvalidation") :
                 setups[j].invalidate = "callback" /\ setups[j].operation = operation

\* a mounted React hook whose optimistic update was set up without an
\* invalidate callback, invalidateQueries being false
C22_Witness ==
    /\ hookPc = "mounted"
    /\ hookCall.framework = "react"
    /\ GivenOption("invalidateQueries") = "false"
    /\ SetupIndexes("setupInvalidation") = {}
    /\ \E i \in SetupIndexes("setupOptimisticUpdate") : setups[i].invalidate = "undefined"

\* C23: mutationFn sends, for DELETE, a request to the URL with the arguments
\* encoded into it, without body and content-type header, and for POST and
\* PUT a request to the unmodified URL with the marshalled arguments as body
\* and content-type application/json; React and Vue build the same request
\* for the same (method, url, data)
C23_RequestFollowsMethod ==
    /\ \A i \in DOMAIN requests :
          LET data == requests[i].data
              sent == requests[i].sent
          IN /\ sent.fetchInit.method = hookCall.method
             /\ hookCall.method = "DELETE" =>
                   /\ sent.reqUrl = makeUrl(hookCall.url, data)
                   /\ sent.reqUrl # hookCall.url
                   /\ DOMAIN sent.fetchInit = {"method"}
             /\ hookCall.method \in {"POST", "PUT"} =>
                   /\ sent.reqUrl = hookCall.url
                   /\ DOMAIN sent.fetchInit = {"method", "headers", "body"}
                   /\ sent.fetchInit.body = marshal(data)
                   /\ sent.fetchInit.headers = ("content-type" :> "application/json")
             /\ sent = reactMutationFn(hookCall.method, hookCall.url, data)
             /\ sent = vueMutationFn(hookCall.method, hookCall.url, data)
    /\ hookPc = "mounted" =>
          \A data \in MutationArgs :
             reactMutationFn(hookCall.method, hookCall.url, data)
                = vueMutationFn(hookCall.method, hookCall.url, data)

\* a React hook for DELETE that has sent two requests with different arguments
C23_Witness ==
    /\ hookPc = "mounted"
    /\ hookCall.framework = "react"
    /\ hookCall.method = "DELETE"
    /\ Len(requests) = 2
    /\ requests[1].data # requests[2].data
    /\ requests[1].sent.reqUrl # requests[2].sent.reqUrl

\* ------------------------------------------------------------------ include helpers (sdk, dmmf-helpers)

\* at most this many fields in a DMMF model
MaxFields == 2

\* the fields a DMMF model `name` can have beside the model `other`: a scalar,
\* a to-one and a to-many relation to the other model, a to-one relation to
\* the model itself, and a list of a composite type (kind object, no relation)
DmmfFields(name, other) ==
    {[name |-> "id", kind |-> "scalar", relationName |-> "undefined",
      isList |-> FALSE, type |-> "Int"],
     [name |-> "one", kind |-> "object", relationName |-> "PostToUser",
      isList |-> FALSE, type |-> other],
     [name |-> "many", kind |-> "object", relationName |-> "PostsOfUser",
      isList |-> TRUE, type |-> other],
     [name |-> "parent", kind |-> "object", relationName |-> "Tree",
      isList |-> FALSE, type |-> name],
     [name |-> "addresses", kind |-> "object", relationName |-> "undefined",
      isList |-> TRUE, type |-> "Address"]}

\* the field lists: up to MaxFields different fields, in any order
FieldLists(universe) ==
    {fl \in UNION {[1..n -> universe] : n \in 0..MaxFields} :
        \A i, j \in DOMAIN fl : fl[i] = fl[j] => i = j}

DmmfModelLists ==
    {<<>>}
    \cup {<<[name |-> "Post", fields |-> fl]>> : fl \in FieldLists(DmmfFields("Post", "User"))}
    \cup {<<[name |-> "Post", fields |-> pf], [name |-> "User", fields |-> uf]>> :
             pf \in FieldLists(DmmfFields("Post", "User")),
             uf \in FieldLists(DmmfFields("User", "Post"))}

\* getPrismaVersion(): none, 5.22.0 or 6.0.0
PrismaVersions == {Absent, {<<5, 22, 0>>}, {<<6, 0, 0>>}}

\* the lists handed to addMissingInputObjectTypesForInclude: empty, or input
\* types made before, one of them already called PostInclude
GivenInputObjectTypes ==
    LET made(name) == [name |-> name,
                       constraints |-> [maxNumFields |-> "null", minNumFields |-> "null"],
                       fields |-> <<>>]
    IN {<<>>,
        <<made(<<"Post", "WhereInput">>)>>,
        <<made(<<"Post", "Include">>), made(<<"Post", "WhereInput">>)>>}

\* semver.gte on versions major.minor.patch
semverGte(v, w) ==
    \/ v[1] > w[1]
    \/ v[1] = w[1] /\ v[2] > w[2]
    \/ v[1] = w[1] /\ v[2] = w[2] /\ v[3] >= w[3]

\* prismaVersion && semver.gte(prismaVersion, '6.0.0')
atLeastPrisma6(prismaVersion) ==
    /\ prismaVersion # Absent
    /\ semverGte(CHOOSE v \in prismaVersion : TRUE, <<6, 0, 0>>)

\* model-helpers: a relation field is an object field with a relation name
checkIsModelRelationField(modelField) ==
    modelField.kind = "object" /\ Truthy(modelField.relationName)

checkModelHasModelRelation(model) ==
    \E modelField \in Range(model.fields) : checkIsModelRelationField(modelField)

checkModelHasManyModelRelation(model) ==
    \E modelField \in Range(model.fields) :
        checkIsModelRelationField(modelField) /\ modelField.isList

getPrismaVersion == dmmf.prismaVersion

BooleanInputType == [isList |-> FALSE, type |-> <<"Boolean">>, location |-> "scalar"]

PrismaInputType(type) ==
    [isList |-> FALSE, type |-> type, location |-> "inputObjectTypes", namespace |-> "prisma"]

\* generateModelIncludeInputObjectTypes adding _count for every model that
\* has a relation
generateModelIncludeInputObjectTypes_CountForAnyRelation(models) ==
    LET prismaVersion == getPrismaVersion
        relationArg(modelField) ==
            [name |-> modelField.name, isRequired |-> FALSE, isNullable |-> FALSE,
             inputTypes |-> <<BooleanInputType,
                 PrismaInputType(IF modelField.isList
                                 THEN <<modelField.type, "FindManyArgs">>
                                 ELSE IF atLeastPrisma6(prismaVersion)
                                      THEN <<modelField.type, "DefaultArgs">>
                                      ELSE <<modelField.type, "Args">>)>>]
        countArg(model) ==
            [name |-> "_count", isRequired |-> FALSE, isNullable |-> FALSE,
             inputTypes |-> <<BooleanInputType,
                 PrismaInputType(IF atLeastPrisma6(prismaVersion)
                                 THEN <<model.name, "CountOutputTypeDefaultArgs">>
                                 ELSE <<model.name, "CountOutputTypeArgs">>)>>]
        ofModel(model) ==
            LET fields == MapSeq(SelectSeq(model.fields, checkIsModelRelationField), relationArg)
            IN IF ~ checkModelHasModelRelation(model) THEN <<>>
               ELSE <<[name |-> <<model.name, "Include">>,
                       constraints |-> [maxNumFields |-> "null", minNumFields |-> "null"],
                       fields |-> fields \o <<countArg(model)>>]>>
    IN Flatten(MapSeq(models, ofModel))

\* generateModelIncludeInputObjectTypes: per model, one argument per relation
\* field; nothing for a model without relation; _count last when the model
\* has a to-many relation
generateModelIncludeInputObjectTypes(models) ==
    LET prismaVersion == getPrismaVersion
        relationArg(modelField) ==
            [name |-> modelField.name, isRequired |-> FALSE, isNullable |-> FALSE,
             inputTypes |-> <<BooleanInputType,
                 PrismaInputType(IF modelField.isList
                                 THEN <<modelField.type, "FindManyArgs">>
                                 ELSE IF atLeastPrisma6(prismaVersion)
                                      THEN <<modelField.type, "DefaultArgs">>
                                      ELSE <<modelField.type, "Args">>)>>]
        countArg(model) ==
            [name |-> "_count", isRequired |-> FALSE, isNullable |-> FALSE,
             inputTypes |-> <<BooleanInputType,
                 PrismaInputType(IF atLeastPrisma6(prismaVersion)
                                 THEN <<model.name, "CountOutputTypeDefaultArgs">>
                                 ELSE <<model.name, "CountOutputTypeArgs">>)>>]
        ofModel(model) ==
            LET fields == MapSeq(SelectSeq(model.fields, checkIsModelRelationField), relationArg)
            IN IF ~ checkModelHasModelRelation(model) THEN <<>>
               ELSE <<[name |-> <<model.name, "Include">>,
                       constraints |-> [maxNumFields |-> "null", minNumFields |-> "null"],
                       fields |-> IF checkModelHasManyModelRelation(model)
                                  THEN fields \o <<countArg(model)>>
                                  ELSE fields]>>
    IN Flatten(MapSeq(models, ofModel))

InitInclude ==
    /\ GeneratorNotCalled
    /\ HooksNotCalled
    /\ dmmf \in [models : DmmfModelLists, prismaVersion : PrismaVersions,
                 given : GivenInputObjectTypes]
    /\ inputObjectTypes = dmmf.given
    /\ generated = <<>>
    /\ includePc = "call"

\* addMissingInputObjectTypesForInclude, line 10
GenerateModelIncludeInputObjectTypes ==
    /\ includePc = "call"
    /\ generated' = generateModelIncludeInputObjectTypes(dmmf.models)
    /\ includePc' = "push"
    /\ UNCHANGED <<dmmf, inputObjectTypes, generatorVars, hookVars>>

\* the types pushed so far
Pushed == Len(inputObjectTypes) - Len(dmmf.given)

\* one round of the loop: inputObjectTypes.push(includeInputObjectType)
PushIncludeInputObjectType ==
    /\ includePc = "push"
    /\ Pushed < Len(generated)
    /\ inputObjectTypes' = Append(inputObjectTypes, generated[Pushed + 1])
    /\ UNCHANGED <<dmmf, generated, includePc, generatorVars, hookVars>>

\* the loop is over
ReturnFromAddMissing ==
    /\ includePc = "push"
    /\ Pushed = Len(generated)
    /\ includePc' = "done"
    /\ UNCHANGED <<dmmf, inputObjectTypes, generated, generatorVars, hookVars>>

NextInclude ==
    \/ GenerateModelIncludeInputObjectTypes
    \/ PushIncludeInputObjectType
    \/ ReturnFromAddMissing

SpecInclude == InitInclude /\ [][NextInclude]_vars

\* ---- the vocabulary of the claim about the include helpers

IsRelation(f) == f.kind = "object" /\ f.relationName # "undefined"

RelationFieldNames(m) == MapSeq(SelectSeq(m.fields, IsRelation), LAMBDA f : f.name)

HasRelation(m) == \E f \in Range(m.fields) : IsRelation(f)

HasToManyRelation(m) == \E f \in Range(m.fields) : IsRelation(f) /\ f.isList

\* what the call appended to the given list
Appended == SubSeq(inputObjectTypes, Len(dmmf.given) + 1, Len(inputObjectTypes))

ModelsWithRelation == SelectSeq(dmmf.models, HasRelation)

ArgsBut(t, name) == SelectSeq(t.fields, LAMBDA a : a.name # name)

====
